---- MODULE Spec2Model ----
(***************************************************************************)
(* Model of the QEdu report generator (src/gerador.py) and of its Flask    *)
(* front end (src/app.py).                                                 *)
(*                                                                         *)
(* The remote statistics API and the two IDEB reference tables are the     *)
(* environment: one "Mundo" record fixes what the API answers to every     *)
(* request and what the tables hold while one request is being served.     *)
(* A territory code is a tuple of one-character strings, a JSON payload is *)
(* a record that keeps only the parts the code under study looks at.       *)
(***************************************************************************)
EXTENDS Integers, Sequences, FiniteSets, TLC

\* ------------------------------------------------------------------------
\* Bounds of the model
\* ------------------------------------------------------------------------
\* number of requests that are served before the model stops
MaxPedidos == 2

\* raw metric values run over -MaxMilli..MaxMilli thousandths, and over the
\* percentages 0.0 .. MaxDecimos tenths
MaxMilli == 1200

MaxDecimos == 1000

\* rows of one IDEB series
MaxLinhas == 3

\* ------------------------------------------------------------------------
\* Program constants
\* ------------------------------------------------------------------------
ANO_ATUAL == 2026

\* default of fetch_json's parameter "tentativas"
Tentativas == 3

\* default of _anos_candidatos' parameter n
JanelaAnos == 6

TIPOS_VALIDOS == <<"aprendizado", "infra", "censo", "ideb", "taxa_rendimento">>

CICLOS == <<"AI", "AF", "EM">>

UF_CODES ==
    [c \in { <<"1","1">>, <<"1","2">>, <<"1","3">>, <<"1","4">>, <<"1","5">>,
             <<"1","6">>, <<"1","7">>, <<"2","1">>, <<"2","2">>, <<"2","3">>,
             <<"2","4">>, <<"2","5">>, <<"2","6">>, <<"2","7">>, <<"2","8">>,
             <<"2","9">>, <<"3","1">>, <<"3","2">>, <<"3","3">>, <<"3","5">>,
             <<"4","1">>, <<"4","2">>, <<"4","3">>, <<"5","0">>, <<"5","1">>,
             <<"5","2">>, <<"5","3">> } |->
       CASE c = <<"1","1">> -> << <<"Rondônia">>, "RO" >>
         [] c = <<"1","2">> -> << <<"Acre">>, "AC" >>
         [] c = <<"1","3">> -> << <<"Amazonas">>, "AM" >>
         [] c = <<"1","4">> -> << <<"Roraima">>, "RR" >>
         [] c = <<"1","5">> -> << <<"Pará">>, "PA" >>
         [] c = <<"1","6">> -> << <<"Amapá">>, "AP" >>
         [] c = <<"1","7">> -> << <<"Tocantins">>, "TO" >>
         [] c = <<"2","1">> -> << <<"Maranhão">>, "MA" >>
         [] c = <<"2","2">> -> << <<"Piauí">>, "PI" >>
         [] c = <<"2","3">> -> << <<"Ceará">>, "CE" >>
         [] c = <<"2","4">> -> << <<"Rio", " ", "Grande", " ", "do", " ", "Norte">>, "RN" >>
         [] c = <<"2","5">> -> << <<"Paraíba">>, "PB" >>
         [] c = <<"2","6">> -> << <<"Pernambuco">>, "PE" >>
         [] c = <<"2","7">> -> << <<"Alagoas">>, "AL" >>
         [] c = <<"2","8">> -> << <<"Sergipe">>, "SE" >>
         [] c = <<"2","9">> -> << <<"Bahia">>, "BA" >>
         [] c = <<"3","1">> -> << <<"Minas", " ", "Gerais">>, "MG" >>
         [] c = <<"3","2">> -> << <<"Espírito", " ", "Santo">>, "ES" >>
         [] c = <<"3","3">> -> << <<"Rio", " ", "de", " ", "Janeiro">>, "RJ" >>
         [] c = <<"3","5">> -> << <<"São", " ", "Paulo">>, "SP" >>
         [] c = <<"4","1">> -> << <<"Paraná">>, "PR" >>
         [] c = <<"4","2">> -> << <<"Santa", " ", "Catarina">>, "SC" >>
         [] c = <<"4","3">> -> << <<"Rio", " ", "Grande", " ", "do", " ", "Sul">>, "RS" >>
         [] c = <<"5","0">> -> << <<"Mato", " ", "Grosso", " ", "do", " ", "Sul">>, "MS" >>
         [] c = <<"5","1">> -> << <<"Mato", " ", "Grosso">>, "MT" >>
         [] c = <<"5","2">> -> << <<"Goiás">>, "GO" >>
         [] OTHER           -> << <<"Distrito", " ", "Federal">>, "DF" >>]

\* ------------------------------------------------------------------------
\* Territory codes: str.strip, str.isdigit, len
\* ------------------------------------------------------------------------
Digitos == {"0", "1", "2", "3", "4", "5", "6", "7", "8", "9"}

RECURSIVE LStrip(_)
LStrip(s) == IF s # <<>> /\ Head(s) = " " THEN LStrip(Tail(s)) ELSE s

RECURSIVE RStrip(_)
RStrip(s) ==
    IF s # <<>> /\ s[Len(s)] = " " THEN RStrip(SubSeq(s, 1, Len(s) - 1)) ELSE s

Strip(s) == RStrip(LStrip(s))

\* str.isdigit: at least one character and every character a digit
IsDigit(s) == s # <<>> /\ \A i \in 1..Len(s) : s[i] \in Digitos

is_estado(codigo) == Strip(codigo) \in DOMAIN UF_CODES

\* _validar_ibge without the test of the length
ValidarSoDigitos(ibge) ==
    IF ~IsDigit(Strip(ibge))
    THEN [ibge |-> <<>>, erro |-> 400]
    ELSE [ibge |-> Strip(ibge), erro |-> 0]

\* _validar_ibge: (code, no error) or (nothing, 400)
_validar_ibge(ibge) ==
    LET limpo == Strip(ibge)
    IN  IF ~IsDigit(limpo) \/ Len(limpo) \notin {2, 7}
        THEN [ibge |-> <<>>, erro |-> 400]
        ELSE [ibge |-> limpo, erro |-> 0]

\* ------------------------------------------------------------------------
\* Candidate years
\* ------------------------------------------------------------------------
\* _anos_candidatos with range(1, n + 1): the window starts a year late
AnosCandidatosDoAnterior(n) == [i \in 1..n |-> ANO_ATUAL - i]

_anos_candidatos(n) == [i \in 1..n |-> ANO_ATUAL - (i - 1)]

\* _anos_saeb: the latest odd year, then every second year back, 5 years
_anos_saeb ==
    [i \in 1..5 |->
        (IF ANO_ATUAL % 2 = 1 THEN ANO_ATUAL ELSE ANO_ATUAL - 1) - 2 * (i - 1)]

\* ------------------------------------------------------------------------
\* JSON payloads, as far as the code looks into them
\* ------------------------------------------------------------------------
\* forma: "None"      fetch_json gave up (None)
\*        "vazio"     an empty JSON container ({} or []): falsy in Python
\*        "ok"        a well-formed response with data
\*        "torto"     a truthy response of the wrong JSON type (a list where a
\*                    dict is read, a null where a dict is read): the shared
\*                    fetch/extract helpers raise on it
\*        "torto_txt" a well-formed response with one field of a type that
\*                    only the text renderer trips over
\* mun, br: the 'ano' of the records of the municipality and of the national
\*          scope of a pass-fail response (0: the record carries no 'ano')
\* nome:    territorio.nome when the response carries one, <<>> otherwise
None == [forma |-> "None", mun |-> <<>>, br |-> <<>>, nome |-> <<>>]

Vazio == [forma |-> "vazio", mun |-> <<>>, br |-> <<>>, nome |-> <<>>]

\* Python truthiness of a payload
Truthy(d) == d.forma \notin {"None", "vazio"}

\* ------------------------------------------------------------------------
\* The environment while one request is served
\* ------------------------------------------------------------------------
\* falhas: attempts of every request that fail before one succeeds
\* fora:   years whose requests always fail
\* anos:   years for which the API holds data
\* forma:  the shape of the responses of the endpoints in alvo; the other
\*         endpoints answer well-formed ("ok")
\* csv:    "ausente" (a table file is missing), "semlinhas" (no row of the
\*         code), "linhas", "quebrado" (rows, but a column the report reads
\*         is missing)
SemNome == <<>>

Endpoints == {"taxa-rendimento", "censo", "infra", "aprendizado"}

MundoBase ==
    [falhas |-> 0, fora |-> {}, anos |-> {ANO_ATUAL}, forma |-> "ok",
     alvo |-> {}, mun |-> <<0>>, br |-> <<>>, sigla |-> "CE",
     nomeTaxa |-> <<"Fortaleza">>, nomeCenso |-> <<"Fortaleza">>,
     csv |-> "linhas", nomeCsv |-> <<"Fortaleza">>]

Mundos ==
    { \* everything answers at once, for the current year
      MundoBase,
      \* every request fails on every attempt, no reference table
      [MundoBase EXCEPT !.falhas = Tentativas, !.csv = "ausente"],
      \* every request fails, the reference tables hold the code
      [MundoBase EXCEPT !.falhas = Tentativas],
      \* two failed attempts, then data of an older year; the current year
      \* times out; records carry years that differ from the requested one;
      \* the names come from the census and contain a report kind
      [MundoBase EXCEPT !.falhas = 2, !.fora = {ANO_ATUAL},
                        !.anos = {ANO_ATUAL - 2, ANO_ATUAL - 3},
                        !.mun = <<ANO_ATUAL - 4, ANO_ATUAL - 3>>,
                        !.br = <<ANO_ATUAL - 3, ANO_ATUAL - 2>>,
                        !.nomeTaxa = SemNome,
                        !.nomeCenso = <<"Censo", " ", "Verde">>,
                        !.csv = "semlinhas"],
      \* data only at the far end of the window; only national records
      [MundoBase EXCEPT !.anos = {ANO_ATUAL - 5}, !.mun = <<>>,
                        !.br = <<ANO_ATUAL - 7>>, !.nomeTaxa = SemNome,
                        !.nomeCenso = SemNome,
                        !.nomeCsv = <<"São", " ", "João", " ", "d", "'", "Infra">>],
      \* the API answers, with nothing in it, and the table is broken
      [MundoBase EXCEPT !.forma = "vazio", !.alvo = Endpoints, !.anos = {},
                        !.csv = "quebrado"],
      \* the infrastructure endpoint answers with the wrong JSON type
      [MundoBase EXCEPT !.forma = "torto", !.alvo = {"infra"},
                        !.anos = {ANO_ATUAL - 1}],
      \* the pass-fail endpoint answers with the wrong JSON type
      [MundoBase EXCEPT !.forma = "torto", !.alvo = {"taxa-rendimento"}],
      \* the census carries a field only the renderer trips over
      [MundoBase EXCEPT !.forma = "torto_txt", !.alvo = {"censo"},
                        !.anos = {ANO_ATUAL - 1},
                        !.mun = <<ANO_ATUAL - 1>>],
      \* the learning records carry a field only the renderer trips over
      [MundoBase EXCEPT !.forma = "torto_txt", !.alvo = {"aprendizado"}] }

\* ------------------------------------------------------------------------
\* fetch cache
\* ------------------------------------------------------------------------
\* what sorted() does to the items of a params dict: by key, alphabetically
ParamOrder ==
    <<"ano", "ciclo_id", "dependencia_id", "ibge_id", "localizacao_id",
      "oferta_id">>

HasParam(params, nome) == \E i \in 1..Len(params) : params[i][1] = nome

ParamVal(params, nome) ==
    LET i == CHOOSE j \in 1..Len(params) : params[j][1] = nome
    IN  params[i][2]

RECURSIVE SortedItems(_, _)
SortedItems(params, k) ==
    IF k > Len(ParamOrder) THEN <<>>
    ELSE IF HasParam(params, ParamOrder[k])
         THEN <<<<ParamOrder[k], ParamVal(params, ParamOrder[k])>>>>
              \o SortedItems(params, k + 1)
         ELSE SortedItems(params, k + 1)

\* cache_key = (url, tuple(sorted((params or {}).items())))
CacheKey(url, params) == <<url, SortedItems(params, 1)>>

AnoDe(params) == IF HasParam(params, "ano") THEN ParamVal(params, "ano") ELSE 0

\* the body the API sends for a request that gets through
Resposta(W, url, params) ==
    LET a == AnoDe(params)
        tem == IF HasParam(params, "ano") THEN a \in W.anos ELSE W.anos # {}
        forma == IF url[1] \in W.alvo THEN W.forma ELSE "ok"
    IN  IF forma = "vazio" \/ ~tem THEN Vazio
        ELSE [forma |-> forma,
              mun |-> IF url[1] = "taxa-rendimento" THEN W.mun ELSE <<>>,
              br |-> IF url[1] = "taxa-rendimento" THEN W.br ELSE <<>>,
              nome |-> CASE url[1] = "taxa-rendimento" -> W.nomeTaxa
                         [] url[1] = "censo" -> W.nomeCenso
                         [] OTHER -> SemNome]

\* requests.get + raise_for_status + json of attempt i (0-based) succeeds
TentativaOk(W, params, i) == i >= W.falhas /\ AnoDe(params) \notin W.fora

\* Tentar with range(tentativas + 1): one attempt too many
RECURSIVE TentarUmaAMais(_, _, _, _, _)
TentarUmaAMais(W, url, params, tentativas, i) ==
    IF i >= tentativas + 1 THEN [val |-> None, tent |-> i, guarda |-> FALSE]
    ELSE IF TentativaOk(W, params, i)
         THEN [val |-> Resposta(W, url, params), tent |-> i + 1, guarda |-> TRUE]
         ELSE IF i = tentativas
              THEN [val |-> None, tent |-> i + 1, guarda |-> TRUE]
              ELSE TentarUmaAMais(W, url, params, tentativas, i + 1)

\* the retry loop of fetch_json: the value and the number of attempts made
RECURSIVE Tentar(_, _, _, _, _)
Tentar(W, url, params, tentativas, i) ==
    IF i >= tentativas THEN [val |-> None, tent |-> i, guarda |-> FALSE]
    ELSE IF TentativaOk(W, params, i)
         THEN [val |-> Resposta(W, url, params), tent |-> i + 1, guarda |-> TRUE]
         ELSE IF i = tentativas - 1
              THEN [val |-> None, tent |-> i + 1, guarda |-> TRUE]
              ELSE Tentar(W, url, params, tentativas, i + 1)

\* A fetch context threads the cache through the calls of one step and logs
\* every fetch_json call: its key, the attempts it made on the network (0 for
\* a cache hit) and the value it returned.
Ctx0(c) == [cache |-> c, log |-> <<>>, res |-> <<>>]

Registra(ctx, cache_key, tent, val) ==
    [ctx EXCEPT !.log = Append(@, [key |-> cache_key, tent |-> tent, val |-> val])]

\* "if cache_key in _FETCH_CACHE: return _FETCH_CACHE[cache_key]"
CacheHit(ctx, cache_key) ==
    [ctx |-> Registra(ctx, cache_key, 0, ctx.cache[cache_key]),
     val |-> ctx.cache[cache_key]]

\* CacheMiss without "_FETCH_CACHE[cache_key] = None" on the last failure
CacheMissSemNone(ctx, cache_key, r) ==
    [ctx |-> [Registra(ctx, cache_key, r.tent, r.val) EXCEPT
                !.cache = IF r.guarda /\ r.val # None
                          THEN (cache_key :> r.val) @@ @ ELSE @],
     val |-> r.val]

\* the retry loop ended with r: "_FETCH_CACHE[cache_key] = result"
CacheMiss(ctx, cache_key, r) ==
    [ctx |-> [Registra(ctx, cache_key, r.tent, r.val) EXCEPT
                !.cache = IF r.guarda THEN (cache_key :> r.val) @@ @ ELSE @],
     val |-> r.val]

FetchKey(ctx, W, url, params, tentativas, cache_key) ==
    IF cache_key \in DOMAIN ctx.cache
    THEN CacheHit(ctx, cache_key)
    ELSE CacheMiss(ctx, cache_key, Tentar(W, url, params, tentativas, 0))

fetch_json(ctx, W, url, params, tentativas) ==
    FetchKey(ctx, W, url, params, tentativas, CacheKey(url, params))

\* _clear_cache that clears nothing
ClearCacheNada(ctx) == ctx

_clear_cache(ctx) == [ctx EXCEPT !.cache = <<>>]

\* ------------------------------------------------------------------------
\* Year-fallback resolvers.  Each returns the context, the payload d, the
\* year a, and exc = TRUE when it raised; each appends what it returned to
\* ctx.res together with the span of ctx.log that holds its fetch_json calls.
\* ------------------------------------------------------------------------
Candidatos(ano) == IF ano # 0 THEN <<ano>> ELSE _anos_candidatos(JanelaAnos)

Devolve(ctx, fn, url, dep, ciclo, de, d, a, exc) ==
    [ctx |-> [ctx EXCEPT !.res = Append(@,
                [fn |-> fn, url |-> url, dep |-> dep, ciclo |-> ciclo,
                 de |-> de, ate |-> Len(ctx.log), d |-> d, a |-> a,
                 exc |-> exc])],
     d |-> d, a |-> a, exc |-> exc]

CensoParams(ibge, a, dep_id) ==
    << <<"ibge_id", ibge>>, <<"ano", a>>, <<"dependencia_id", dep_id>>,
       <<"localizacao_id", 0>>, <<"oferta_id", 0>> >>

\* the body of the loop once fetch_json returned r
Resolve(r, fn, url, dep, ciclo, de, tem, a) ==
    Devolve(r.ctx, fn, url, dep, ciclo, de,
            IF r.val.forma = "torto" \/ ~tem THEN None ELSE r.val,
            IF r.val.forma = "torto" \/ ~tem THEN 0 ELSE a,
            r.val.forma = "torto")

\* CensoPasso without the test "d and d.get('censo')"
CensoPassoSemTeste(r, W, ibge, dep_id, anos, i, de) ==
    Resolve(r, "fetch_censo", <<"censo", ibge>>, dep_id, "", de, TRUE, anos[i])

RECURSIVE CensoLoop(_, _, _, _, _, _, _)
RECURSIVE CensoPasso(_, _, _, _, _, _, _)
CensoPasso(r, W, ibge, dep_id, anos, i, de) ==
    IF r.val.forma = "torto" \/ Truthy(r.val)
    THEN Resolve(r, "fetch_censo", <<"censo", ibge>>, dep_id, "", de,
                 Truthy(r.val), anos[i])
    ELSE CensoLoop(r.ctx, W, ibge, dep_id, anos, i + 1, de)

CensoLoop(ctx, W, ibge, dep_id, anos, i, de) ==
    IF i > Len(anos)
    THEN Devolve(ctx, "fetch_censo", <<"censo", ibge>>, dep_id, "", de, None, 0, FALSE)
    ELSE CensoPasso(fetch_json(ctx, W, <<"censo">>,
                               CensoParams(ibge, anos[i], dep_id), Tentativas),
                    W, ibge, dep_id, anos, i, de)

fetch_censo(ctx, W, ibge, dep_id, ano) ==
    CensoLoop(ctx, W, ibge, dep_id, Candidatos(ano), 1, Len(ctx.log) + 1)

InfraParams(a, dep_id) == << <<"dependencia_id", dep_id>>, <<"ano", a>> >>

RECURSIVE InfraLoop(_, _, _, _, _, _, _)
RECURSIVE InfraPasso(_, _, _, _, _, _, _)
InfraPasso(r, W, ibge, dep_id, anos, i, de) ==
    IF r.val.forma = "torto" \/ Truthy(r.val)
    THEN Resolve(r, "fetch_infra", <<"infra", ibge>>, dep_id, "", de,
                 Truthy(r.val), anos[i])
    ELSE InfraLoop(r.ctx, W, ibge, dep_id, anos, i + 1, de)

InfraLoop(ctx, W, ibge, dep_id, anos, i, de) ==
    IF i > Len(anos)
    THEN Devolve(ctx, "fetch_infra", <<"infra", ibge>>, dep_id, "", de, None, 0, FALSE)
    ELSE InfraPasso(fetch_json(ctx, W, <<"infra", ibge>>,
                               InfraParams(anos[i], dep_id), Tentativas),
                    W, ibge, dep_id, anos, i, de)

fetch_infra(ctx, W, ibge, dep_id, ano) ==
    InfraLoop(ctx, W, ibge, dep_id, Candidatos(ano), 1, Len(ctx.log) + 1)

fetch_aprendizado(ctx, W, ibge, dep_id, ciclo) ==
    fetch_json(ctx, W, <<"aprendizado", ibge>>,
               << <<"dependencia_id", dep_id>>, <<"ciclo_id", ciclo>> >>,
               Tentativas)

TaxaParams(a, ciclo, dep_id) ==
    << <<"dependencia_id", dep_id>>, <<"ano", a>>, <<"ciclo_id", ciclo>>,
       <<"localizacao_id", 0>> >>

\* the largest 'ano' of the records of a list, 0 when none carries one
RECURSIVE MaxAno(_, _)
MaxAno(regs, ano_real) ==
    IF regs = <<>> THEN ano_real
    ELSE MaxAno(Tail(regs),
                IF Head(regs) # 0 /\ Head(regs) > ano_real
                THEN Head(regs) ELSE ano_real)

\* "d.get('entidade') or d.get('municipio') or d.get('brasil')"
TaxaTemDados(d) == d.mun # <<>> \/ d.br # <<>>

\* "return norm, ano_real if ano_real else a"
AnoReal(d, a) ==
    IF MaxAno(d.br, MaxAno(d.mun, 0)) # 0
    THEN MaxAno(d.br, MaxAno(d.mun, 0)) ELSE a

RECURSIVE TaxaLoop(_, _, _, _, _, _, _, _)
RECURSIVE TaxaPasso(_, _, _, _, _, _, _, _)
TaxaPasso(r, W, ibge, ciclo, dep_id, anos, i, de) ==
    IF r.val.forma = "torto" \/ (Truthy(r.val) /\ TaxaTemDados(r.val))
    THEN Resolve(r, "fetch_taxa", <<"taxa-rendimento", ibge>>, dep_id, ciclo,
                 de, Truthy(r.val) /\ TaxaTemDados(r.val),
                 AnoReal(r.val, anos[i]))
    ELSE TaxaLoop(r.ctx, W, ibge, ciclo, dep_id, anos, i + 1, de)

TaxaLoop(ctx, W, ibge, ciclo, dep_id, anos, i, de) ==
    IF i > Len(anos)
    THEN Devolve(ctx, "fetch_taxa", <<"taxa-rendimento", ibge>>, dep_id, ciclo,
                 de, None, 0, FALSE)
    ELSE TaxaPasso(fetch_json(ctx, W, <<"taxa-rendimento", ibge>>,
                              TaxaParams(anos[i], ciclo, dep_id), Tentativas),
                   W, ibge, ciclo, dep_id, anos, i, de)

fetch_taxa(ctx, W, ibge, ciclo, dep_id, ano) ==
    TaxaLoop(ctx, W, ibge, ciclo, dep_id, Candidatos(ano), 1, Len(ctx.log) + 1)

\* ------------------------------------------------------------------------
\* Entity resolver
\* ------------------------------------------------------------------------
\* A name is a tuple of words and separators.  fonte tells which source gave
\* the name: "uf", "taxa", "censo", "csv" or "nenhuma".
Achou(ctx, mun, uf, fonte) ==
    [ctx |-> ctx, mun |-> mun, uf |-> uf, fonte |-> fonte, exc |-> FALSE]

RECURSIVE DescTaxa(_, _, _, _, _)
RECURSIVE DescTaxaPasso(_, _, _, _, _)
\* the body of the loop over the years once fetch_json returned raw
DescTaxaPasso(raw, W, ibge, c, i) ==
    IF ~Truthy(raw.val) THEN DescTaxa(raw.ctx, W, ibge, c, i + 1)
    ELSE IF raw.val.forma = "torto"
         THEN [Achou(raw.ctx, SemNome, "??", "nenhuma") EXCEPT !.exc = TRUE]
         ELSE IF raw.val.mun # <<>> /\ raw.val.nome # SemNome
              THEN Achou(raw.ctx, raw.val.nome, W.sigla, "taxa")
              ELSE DescTaxa(raw.ctx, W, ibge, c + 1, 1)

\* 1) the pass-fail API, for the cycles AI and AF
DescTaxa(ctx, W, ibge, c, i) ==
    IF c > 2 THEN Achou(ctx, SemNome, "??", "nenhuma")
    ELSE IF i > JanelaAnos THEN DescTaxa(ctx, W, ibge, c + 1, 1)
    ELSE DescTaxaPasso(
             fetch_json(ctx, W, <<"taxa-rendimento", ibge>>,
                        TaxaParams(_anos_candidatos(JanelaAnos)[i], CICLOS[c], 0),
                        Tentativas),
             W, ibge, c, i)

\* 3) the municipal reference table, else the placeholder name
DescCsv(c, W, ibge) ==
    IF c.exc THEN [Achou(c.ctx, SemNome, "??", "nenhuma") EXCEPT !.exc = TRUE]
    ELSE IF Truthy(c.d) /\ c.d.nome # SemNome
         THEN Achou(c.ctx, c.d.nome, W.sigla, "censo")
         ELSE IF W.csv \in {"linhas", "quebrado"}
              THEN Achou(c.ctx, W.nomeCsv, W.sigla, "csv")
              ELSE Achou(c.ctx, <<"IBGE_">> \o ibge, "??", "nenhuma")

\* DescCenso that asks the census API even after the pass-fail API gave a name
DescCensoSempre(t, W, ibge) ==
    IF t.exc THEN t
    ELSE DescCsv(fetch_censo(t.ctx, W, ibge, 5, 0), W, ibge)

\* 2) the census API, unless the pass-fail API named the entity or raised
DescCenso(t, W, ibge) ==
    IF t.exc \/ t.fonte = "taxa" THEN t
    ELSE DescCsv(fetch_censo(t.ctx, W, ibge, 5, 0), W, ibge)

\* DescApi without the test "ibge in UF_CODES"
DescApiSemMapa(ctx, W, ibge) ==
    DescCenso(DescTaxa(ctx, W, ibge, 1, 1), W, ibge)

DescApi(ctx, W, ibge) ==
    IF ibge \in DOMAIN UF_CODES
    THEN Achou(ctx, UF_CODES[ibge][1], UF_CODES[ibge][2], "uf")
    ELSE DescCenso(DescTaxa(ctx, W, ibge, 1, 1), W, ibge)

descobrir_municipio(ctx, W, codigo) == DescApi(ctx, W, Strip(codigo))

\* ------------------------------------------------------------------------
\* File names
\* ------------------------------------------------------------------------
\* the replacements of _slug on one word of the names the model uses
SlugPalavra(t) ==
    CASE t = " "        -> "_"
      [] t = "/"        -> "_"
      [] t = "São"      -> "Sao"
      [] t = "João"     -> "Joao"
      [] t = "Rondônia" -> "Rondonia"
      [] t = "Maranhão" -> "Maranhao"
      [] t = "Piauí"    -> "Piaui"
      [] t = "Paraíba"  -> "Paraiba"
      [] t = "Espírito" -> "Espirito"
      [] OTHER          -> t

RECURSIVE _slug(_)
_slug(nome) ==
    IF nome = <<>> THEN <<>>
    ELSE IF Head(nome) = "'" THEN _slug(Tail(nome))
         ELSE <<SlugPalavra(Head(nome))>> \o _slug(Tail(nome))

\* str.lower on the words that spell a report kind
Lower(t) ==
    CASE t = "Aprendizado" -> "aprendizado"
      [] t = "Infra"       -> "infra"
      [] t = "Censo"       -> "censo"
      [] t = "Ideb"        -> "ideb"
      [] t = "IDEB"        -> "ideb"
      [] OTHER             -> t

\* f"{slug}_{nome}.txt"
NomeArquivo(slug, nome) == slug \o <<"_", nome, ".txt">>

\* "tipo in fname.lower()"
Contem(fname, tipo) == \E i \in 1..Len(fname) : Lower(fname[i]) = tipo

\* ------------------------------------------------------------------------
\* The five renderers.  A text keeps its marker: "sem_dados" (the text holds
\* the no-data placeholder), "relatorio" (a full report) or "erro" (the
\* inline error text of gerar_todos).  exc = TRUE: the renderer raised.
\* ------------------------------------------------------------------------
Texto(ctx, marca) == [ctx |-> ctx, txt |-> [marca |-> marca], exc |-> FALSE]

Levanta(ctx) == [ctx |-> ctx, txt |-> [marca |-> "erro"], exc |-> TRUE]

\* the loop over CICLOS of gerar_txt_aprendizado; tem: a cycle gave a block
RECURSIVE AprendizadoLoop(_, _, _, _, _)
RECURSIVE AprendizadoPasso(_, _, _, _, _)
AprendizadoPasso(r, W, ibge, c, tem) ==
    IF r.val.forma \in {"torto", "torto_txt"} THEN Levanta(r.ctx)
    ELSE AprendizadoLoop(r.ctx, W, ibge, c + 1, tem \/ Truthy(r.val))

AprendizadoLoop(ctx, W, ibge, c, tem) ==
    IF c > Len(CICLOS)
    THEN Texto(ctx, IF tem THEN "relatorio" ELSE "sem_dados")
    ELSE AprendizadoPasso(fetch_aprendizado(ctx, W, ibge, 5, CICLOS[c]),
                          W, ibge, c, tem)

gerar_txt_aprendizado(ctx, W, ibge) == AprendizadoLoop(ctx, W, ibge, 1, FALSE)

\* TextoDe without the "if not dados" guard: the renderer reads into None
TextoDeSemGuarda(r) ==
    IF r.exc \/ ~Truthy(r.d) \/ r.d.forma = "torto_txt" THEN Levanta(r.ctx)
    ELSE Texto(r.ctx, "relatorio")

\* what gerar_txt_infra and gerar_txt_censo make of the resolver's answer r
TextoDe(r) ==
    IF r.exc THEN Levanta(r.ctx)
    ELSE IF ~Truthy(r.d) THEN Texto(r.ctx, "sem_dados")
    ELSE IF r.d.forma = "torto_txt" THEN Levanta(r.ctx)
    ELSE Texto(r.ctx, "relatorio")

gerar_txt_infra(ctx, W, ibge) == TextoDe(fetch_infra(ctx, W, ibge, 3, 0))

gerar_txt_censo(ctx, W, ibge) == TextoDe(fetch_censo(ctx, W, ibge, 3, 0))

\* load_ideb reads the two tables, never the API
gerar_txt_ideb(ctx, W, ibge) ==
    CASE W.csv \in {"ausente", "semlinhas"} -> Texto(ctx, "sem_dados")
      [] W.csv = "quebrado"                 -> Levanta(ctx)
      [] OTHER                              -> Texto(ctx, "relatorio")

\* the loop over CICLOS of gerar_txt_taxa; ano_ref: the largest year so far
RECURSIVE TaxaCiclos(_, _, _, _, _, _)
RECURSIVE TaxaCiclo(_, _, _, _, _, _)
TaxaCiclo(r, W, ibge, c, ano_ref, torto) ==
    IF r.exc THEN Levanta(r.ctx)
    ELSE TaxaCiclos(r.ctx, W, ibge, c + 1,
                    IF r.a > ano_ref THEN r.a ELSE ano_ref,
                    torto \/ r.d.forma = "torto_txt")

TaxaCiclos(ctx, W, ibge, c, ano_ref, torto) ==
    IF c > Len(CICLOS)
    THEN IF ano_ref = 0 THEN Texto(ctx, "sem_dados")
         ELSE IF torto THEN Levanta(ctx)
         ELSE Texto(ctx, "relatorio")
    ELSE TaxaCiclo(fetch_taxa(ctx, W, ibge, CICLOS[c], 0, 0),
                   W, ibge, c, ano_ref, torto)

gerar_txt_taxa(ctx, W, ibge) == TaxaCiclos(ctx, W, ibge, 1, 0, FALSE)

Geradores == <<"aprendizado", "infra", "censo", "ideb", "taxa_rendimento">>

Gerar(nome, ctx, W, ibge) ==
    CASE nome = "aprendizado" -> gerar_txt_aprendizado(ctx, W, ibge)
      [] nome = "infra"       -> gerar_txt_infra(ctx, W, ibge)
      [] nome = "censo"       -> gerar_txt_censo(ctx, W, ibge)
      [] nome = "ideb"        -> gerar_txt_ideb(ctx, W, ibge)
      [] OTHER                -> gerar_txt_taxa(ctx, W, ibge)

\* ------------------------------------------------------------------------
\* Structured-data collector: the sections it filled, or exc = TRUE
\* ------------------------------------------------------------------------
Coletado(ctx, ibge, secoes) ==
    [ctx |-> ctx, exc |-> FALSE,
     dados |-> [tipo |-> IF is_estado(ibge) THEN "estado" ELSE "municipio",
                secoes |-> secoes]]

ColetaFalha(ctx) ==
    [ctx |-> ctx, exc |-> TRUE, dados |-> [tipo |-> "", secoes |-> {}]]

Secao(tem, nome) == IF tem THEN {nome} ELSE {}

\* --- Taxa de Rendimento ---
RECURSIVE ColetaTaxa(_, _, _, _, _)
RECURSIVE ColetaTaxaPasso(_, _, _, _, _)
ColetaTaxaPasso(r, W, ibge, c, secoes) ==
    IF r.exc THEN ColetaFalha(r.ctx)
    ELSE ColetaTaxa(r.ctx, W, ibge, c + 1,
                    secoes \cup Secao(Truthy(r.d) /\ r.d.mun # <<>>,
                                      "taxa_rendimento"))

ColetaTaxa(ctx, W, ibge, c, secoes) ==
    IF c > Len(CICLOS) THEN Coletado(ctx, ibge, secoes)
    ELSE ColetaTaxaPasso(fetch_taxa(ctx, W, ibge, CICLOS[c], 0, 0),
                         W, ibge, c, secoes)

\* --- Infra ---
ColetaInfra(r, W, ibge, secoes) ==
    IF r.exc THEN ColetaFalha(r.ctx)
    ELSE ColetaTaxa(r.ctx, W, ibge, 1, secoes \cup Secao(Truthy(r.d), "infra"))

\* ColetaCenso asking fetch_infra for another dependencia_id than the renderer
ColetaCensoOutraRede(r, W, ibge, secoes) ==
    IF r.exc THEN ColetaFalha(r.ctx)
    ELSE ColetaInfra(fetch_infra(r.ctx, W, ibge, 5, 0), W, ibge,
                     secoes \cup Secao(Truthy(r.d), "censo"))

\* --- Censo ---
ColetaCenso(r, W, ibge, secoes) ==
    IF r.exc THEN ColetaFalha(r.ctx)
    ELSE ColetaInfra(fetch_infra(r.ctx, W, ibge, 3, 0), W, ibge,
                     secoes \cup Secao(Truthy(r.d), "censo"))

\* --- Aprendizado ---
RECURSIVE ColetaAprendizado(_, _, _, _, _)
RECURSIVE ColetaAprendizadoPasso(_, _, _, _, _)
ColetaAprendizadoPasso(r, W, ibge, c, secoes) ==
    IF r.val.forma = "torto" THEN ColetaFalha(r.ctx)
    ELSE ColetaAprendizado(r.ctx, W, ibge, c + 1,
                           secoes \cup Secao(Truthy(r.val), "aprendizado"))

ColetaAprendizado(ctx, W, ibge, c, secoes) ==
    IF c > Len(CICLOS)
    THEN ColetaCenso(fetch_censo(ctx, W, ibge, 3, 0), W, ibge, secoes)
    ELSE ColetaAprendizadoPasso(fetch_aprendizado(ctx, W, ibge, 5, CICLOS[c]),
                                W, ibge, c, secoes)

coletar_dados_estruturados(ctx, W, ibge) ==
    ColetaAprendizado(ctx, W, ibge, 1, {})

\* ------------------------------------------------------------------------
\* Formatting and classification of metric values
\* ------------------------------------------------------------------------
\* A Python number is held in thousandths (0.655 is 655, 65.5 is 65500); a
\* value read from a payload or a table is a number, None or NaN.
Nenhum == [falta |-> "None", v |-> 0]

NaN == [falta |-> "nan", v |-> 0]

Num(v) == [falta |-> "", v |-> v]

Abs(v) == IF v < 0 THEN 0 - v ELSE v

\* "x or 0": None and 0 are falsy, NaN is truthy
Ou0(x) == IF x.falta = "None" THEN Num(0) ELSE x

\* x + y on floats
Mais(x, y) ==
    IF x.falta = "nan" \/ y.falta = "nan" THEN NaN ELSE Num(x.v + y.v)

DISCIPLINAS == <<"lp", "mt">>

Algarismos == <<"0", "1", "2", "3", "4", "5", "6", "7", "8", "9">>

\* str(n) for n >= 0
RECURSIVE Decimal(_)
Decimal(n) ==
    IF n < 10 THEN <<Algarismos[n + 1]>>
    ELSE Decimal(n \div 10) \o <<Algarismos[(n % 10) + 1]>>

\* n / q rounded to the nearest integer, ties to even (n >= 0)
Arredonda(n, q) ==
    IF 2 * (n % q) > q \/ (2 * (n % q) = q /\ (n \div q) % 2 = 1)
    THEN (n \div q) + 1
    ELSE n \div q

\* the rounding of a decimal tie depends on the binary value of the float:
\* such values are left out of the inputs
Empate(v, dec) == IF dec = 1 THEN v % 100 = 50 ELSE v % 10 = 5

\* the digits of t after the point, dec of them
Fracao(t, dec) ==
    IF dec = 1 THEN <<Algarismos[(t % 10) + 1]>>
    ELSE <<Algarismos[((t \div 10) % 10) + 1], Algarismos[(t % 10) + 1]>>

\* f"{val:.1f}", f"{val:.2f}" and, with mais, f"{val:+.1f}", f"{val:+.2f}"
Fixo(val, dec, mais) ==
    (IF val < 0 THEN <<"-">> ELSE IF mais THEN <<"+">> ELSE <<>>)
    \o Decimal(Arredonda(Abs(val), IF dec = 1 THEN 100 ELSE 10)
               \div (IF dec = 1 THEN 10 ELSE 100))
    \o <<".">>
    \o Fracao(Arredonda(Abs(val), IF dec = 1 THEN 100 ELSE 10), dec)

\* f"{s:>w}"
RECURSIVE Direita(_, _)
Direita(s, w) == IF Len(s) >= w THEN s ELSE Direita(<<" ">> \o s, w)

\* val of _pct
PctVal(v) == IF Abs(v) <= 1010 THEN v * 100 ELSE v

_pct(x) ==
    IF x.falta = "None" THEN <<"sem dados">>
    ELSE IF x.falta = "nan" THEN <<"n", "a", "n", "%">>
    ELSE Fixo(PctVal(x.v), 1, FALSE) \o <<"%">>

\* val of _pp
PpVal(v) == IF Abs(v) <= 1010 THEN v * 100 ELSE v

_pp(x, decimais) ==
    IF x.falta = "None" THEN <<"sem dados">>
    ELSE IF x.falta = "nan" THEN <<"+", "n", "a", "n", "p", "p">>
    ELSE Fixo(PpVal(x.v), decimais, TRUE) \o <<"p", "p">>

\* _val with its default fmt=".2f"
_val(x) ==
    IF x.falta = "None" THEN <<"N/D">>
    ELSE IF x.falta = "nan" THEN <<"n", "a", "n">>
    ELSE Fixo(x.v, 2, FALSE)

\* val of _safe_taxa
SafeTaxaVal(v) == IF Abs(v) <= 1010 THEN v * 100 ELSE v

_safe_taxa(x) ==
    IF x.falta = "None" THEN <<"sem dados">>
    ELSE IF x.falta = "nan" THEN <<"n", "a", "n", "%">>
    ELSE Fixo(SafeTaxaVal(x.v), 1, FALSE) \o <<"%">>

\* p of _classificar_desempenho
DesempenhoVal(v) == IF v <= 1000 THEN v * 100 ELSE v

\* the labels are written without their accents; every comparison with NaN
\* is false
_classificar_desempenho(x) ==
    IF x.falta = "None" THEN "Dados nao disponiveis"
    ELSE IF x.falta = "nan" THEN "Desempenho critico"
    ELSE IF DesempenhoVal(x.v) >= 70000 THEN "Bom desempenho"
    ELSE IF DesempenhoVal(x.v) >= 50000 THEN "Desempenho intermediario"
    ELSE "Desempenho critico"

\* v of _classificar_taxa
TaxaVal(v) == IF Abs(v) <= 1010 THEN v * 100 ELSE v

TiposTaxa == {"aprovacao", "reprovacao", "abandono"}

Faixa(a, b, c) ==
    IF a THEN "Excelente" ELSE IF b THEN "Bom" ELSE IF c THEN "Regular"
    ELSE "Critico"

_classificar_taxa(x, tipo) ==
    IF x.falta = "None" THEN "Sem dados"
    ELSE IF x.falta = "nan" THEN "Critico"
    ELSE IF tipo = "aprovacao"
         THEN Faixa(TaxaVal(x.v) >= 98000, TaxaVal(x.v) >= 95000,
                    TaxaVal(x.v) >= 90000)
    ELSE IF tipo = "reprovacao"
         THEN Faixa(TaxaVal(x.v) <= 1000, TaxaVal(x.v) <= 3000,
                    TaxaVal(x.v) <= 5000)
    ELSE Faixa(TaxaVal(x.v) <= 500, TaxaVal(x.v) <= 1500,
               TaxaVal(x.v) <= 3000)

\* rec.get(f"{disc}_{nivel}") of a learning record
Campo(rec, disc, nivel) == rec[<<disc, nivel>>]

\* _adeq that forgets the advanced tier
AdeqSemAvancado(rec, disc) ==
    IF Campo(rec, disc, "adequado").falta # "None"
    THEN Campo(rec, disc, "adequado")
    ELSE IF Campo(rec, disc, "proficiente").falta # "None"
            \/ Campo(rec, disc, "avancado").falta # "None"
         THEN Ou0(Campo(rec, disc, "proficiente"))
         ELSE Nenhum

_adeq(rec, disc) ==
    IF Campo(rec, disc, "adequado").falta # "None"
    THEN Campo(rec, disc, "adequado")
    ELSE IF Campo(rec, disc, "proficiente").falta # "None"
            \/ Campo(rec, disc, "avancado").falta # "None"
         THEN Mais(Ou0(Campo(rec, disc, "proficiente")),
                   Ou0(Campo(rec, disc, "avancado")))
         ELSE Nenhum

\* a cell of the evolution table of gerar_txt_aprendizado:
\* f"{(v*100 if v else 0):>6.1f}%"
EvolucaoVal(x) == IF x.falta = "" /\ x.v # 0 THEN x.v * 100 ELSE 0

CelulaEvolucao(x) ==
    IF x.falta = "nan" THEN <<" ", " ", " ", "n", "a", "n", "%">>
    ELSE Direita(Fixo(EvolucaoVal(x), 1, FALSE), 6) \o <<"%">>

\* the "inadequado" line of the diagnostic of gerar_txt_aprendizado
Inadequado(basico, insuf) == _pct(Mais(Ou0(basico), Ou0(insuf)))

\* round(v, 2), in hundredths
Round2(v) == IF v < 0 THEN 0 - Arredonda(0 - v, 10) ELSE Arredonda(v, 10)

\* the percentages of the structured summary: learning levels ...
ResumoAprendizadoVal(v) == IF Abs(v) <= 1010 THEN v * 100 ELSE v

ResumoAprendizado(x) ==
    IF x.falta = "None" THEN [tem |-> FALSE, pct |-> Nenhum]
    ELSE IF x.falta = "nan" THEN [tem |-> TRUE, pct |-> NaN]
    ELSE [tem |-> TRUE, pct |-> Num(Round2(ResumoAprendizadoVal(x.v)))]

\* ... and rates: round(ap * 100, 2) if ap else None
ResumoTaxaVal(v) == v * 100

ResumoTaxa(x) ==
    IF x.falta = "None" \/ (x.falta = "" /\ x.v = 0) THEN Nenhum
    ELSE IF x.falta = "nan" THEN NaN
    ELSE Num(Round2(ResumoTaxaVal(x.v)))

\* --- the trend of the IDEB series ---
RECURSIVE Soma(_)
Soma(s) == IF s = <<>> THEN 0 ELSE s[1] + Soma(Tail(s))

Produto(a, b) == [i \in DOMAIN a |-> a[i] * b[i]]

\* the slope of the least-squares line, as a fraction; numpy answers a
\* series whose years are all equal with a warning and a minimum-norm value,
\* which is not computed here
polyfit(anos, valores) ==
    IF Len(anos) * Soma(Produto(anos, anos)) = Soma(anos) * Soma(anos)
    THEN [tipo |-> "float", exato |-> FALSE, num |-> 0, den |-> 1]
    ELSE [tipo |-> "float", exato |-> TRUE,
          num |-> Len(anos) * Soma(Produto(anos, valores))
                  - Soma(anos) * Soma(valores),
          den |-> Len(anos) * Soma(Produto(anos, anos))
                  - Soma(anos) * Soma(anos)]

\* np: "numpy" the library answers, "falha" np.polyfit raises, "ausente" the
\* import failed (np is None)
_trend_slope(anos, valores, np) ==
    IF np = "numpy" /\ Len(anos) >= 2 THEN polyfit(anos, valores)
    ELSE IF Len(anos) >= 2
         THEN IF anos[Len(anos)] = anos[1]
              THEN [tipo |-> "ZeroDivisionError", exato |-> FALSE,
                    num |-> 0, den |-> 1]
              ELSE [tipo |-> "float", exato |-> TRUE,
                    num |-> valores[Len(valores)] - valores[1],
                    den |-> anos[Len(anos)] - anos[1]]
         ELSE [tipo |-> "float", exato |-> TRUE, num |-> 0, den |-> 1]

\* gerar_txt_ideb: vals_list holds 0 for a missing value, and the series
\* handed to _trend_slope keeps the rows whose value is > 0
ValsList(linhas) ==
    [i \in DOMAIN linhas |->
        IF linhas[i].valor.falta = "" THEN linhas[i].valor.v ELSE 0]

RECURSIVE Limpos(_, _)
Limpos(linhas, campo) ==
    IF linhas = <<>> THEN <<>>
    ELSE (IF linhas[1].valor.falta = "" /\ linhas[1].valor.v > 0
          THEN <<IF campo = "ano" THEN linhas[1].ano ELSE linhas[1].valor.v>>
          ELSE <<>>)
         \o Limpos(Tail(linhas), campo)

\* ------------------------------------------------------------------------
\* State
\* ------------------------------------------------------------------------
VARIABLES
    proc,     \* what the process is: "novo", "servidor" (app.py), "cli" or
              \* "interprete" (a Python session that imported gerador)
    cache,    \* _FETCH_CACHE, one per process
    pedidos,  \* requests started so far
    pc,       \* per worker: where its request stands
    req,      \* per worker: the route, the code and the report kind asked
    amb,      \* per worker: the environment while its request is served
    run,      \* per worker: the locals of gerar_todos / descobrir_municipio
    resp,     \* per worker: the response
    obs,      \* per worker: the fetch_json calls of its last step and what
              \* its request has done on the network so far
    calc      \* a formatting or classification helper: its arguments and,
              \* once it was called, its result

vars == <<proc, cache, pedidos, pc, req, amb, run, resp, obs, calc>>

Workers == {1, 2}

\* codes as they arrive: empty, blank, a state, a state with a blank, two
\* digits that name no state, a municipality, a letter, six digits
Entradas ==
    { <<>>, <<" ">>, <<"2","3">>, <<"2","3"," ">>, <<"9","9">>,
      <<"2","3","0","4","4","0","0">>, <<"2","a">>,
      <<"2","3","0","4","4","0">> }

\* report kinds as they arrive
TiposPedidos == {"", "xyz", "ideb", "Censo"}

Req0 == [rota |-> "", ibge |-> <<>>, tipo |-> ""]

Run0 ==
    [ibge |-> <<>>, mun |-> <<>>, uf |-> "", fonte |-> "", arquivos |-> <<>>,
     dados |-> [tipo |-> "", secoes |-> {}], exc |-> FALSE, gravados |-> <<>>,
     devolveu |-> FALSE]

Resp0 ==
    [status |-> 0, corpo |-> "", relatorios |-> <<>>, total |-> 0,
     tipo |-> "", dados |-> [tipo |-> "", secoes |-> {}]]

\* What a request has done with fetch_json so far:
\*   log, res  the fetch_json calls and the resolver returns of its last step
\*   herdado   the keys the cache held when the request came in
\*   rede      key -> value of every key the request fetched over the network
\*   dup       it went to the network for a key it had already fetched
\*   alheio    a cache hit gave it a value it had not fetched itself
\*   difere    a cache hit gave it a value other than the one it had fetched
Obs0 ==
    [log |-> <<>>, res |-> <<>>, herdado |-> {}, rede |-> <<>>, dup |-> FALSE,
     alheio |-> FALSE, difere |-> FALSE]

RotasGeracao == {"gerar_query", "gerar_path", "relatorio", "cli", "direto"}

RotasMunicipio == {"municipio_query", "municipio_path"}

\* what one fetch_json call e adds to the observations
ObservaUm(o, e) ==
    [o EXCEPT
       !.dup = @ \/ (e.tent > 0 /\ e.key \in DOMAIN o.rede),
       !.alheio = @ \/ (e.tent = 0 /\ e.key \notin DOMAIN o.rede),
       !.difere = @ \/ (e.tent = 0 /\ e.key \in DOMAIN o.rede
                          /\ o.rede[e.key] # e.val),
       !.rede = IF e.tent > 0 /\ e.key \notin DOMAIN @
                THEN (e.key :> e.val) @@ @ ELSE @]

RECURSIVE ObservaLog(_, _, _)
ObservaLog(o, L, i) ==
    IF i > Len(L) THEN o ELSE ObservaLog(ObservaUm(o, L[i]), L, i + 1)

\* what a step that ran with context ctx adds to the observations
Observa(o, ctx) ==
    [ObservaLog(o, ctx.log, 1) EXCEPT !.log = ctx.log, !.res = ctx.res]

\* no helper is under study
Calc0 ==
    [fn |-> "", de |-> "", x |-> Nenhum, y |-> Nenhum, rec |-> <<>>,
     linhas |-> <<>>, anos |-> <<>>, valores |-> <<>>, arg |-> "",
     val |-> Nenhum, out |-> <<>>]

InitPrograma ==
    /\ proc = "novo"
    /\ cache = <<>>
    /\ pedidos = 0
    /\ pc = [w \in Workers |-> "idle"]
    /\ req = [w \in Workers |-> Req0]
    /\ amb = [w \in Workers |-> MundoBase]
    /\ run = [w \in Workers |-> Run0]
    /\ resp = [w \in Workers |-> Resp0]
    /\ obs = [w \in Workers |-> Obs0]

Init ==
    /\ InitPrograma
    /\ calc = Calc0

\* ------------------------------------------------------------------------
\* Entry points
\* ------------------------------------------------------------------------
Livre(w) == pc[w] = "idle" /\ pedidos < MaxPedidos

\* the request of worker w starts: its route and inputs, its environment
Entra(w, rota, ibge, tipo, W, passo) ==
    /\ pedidos' = pedidos + 1
    /\ pc' = [pc EXCEPT ![w] = passo]
    /\ req' = [req EXCEPT ![w] = [rota |-> rota, ibge |-> ibge, tipo |-> tipo]]
    /\ amb' = [amb EXCEPT ![w] = W]
    /\ run' = [run EXCEPT ![w] = [Run0 EXCEPT !.ibge = ibge]]
    /\ obs' = [obs EXCEPT ![w] = [Obs0 EXCEPT !.herdado = DOMAIN cache]]
    /\ UNCHANGED <<cache, calc>>

Recusa(w, rota, ibge, tipo, W, status) ==
    /\ Entra(w, rota, ibge, tipo, W, "fim")
    /\ resp' = [resp EXCEPT ![w] = [Resp0 EXCEPT !.status = status,
                                                 !.corpo = "erro"]]

\* _gerar up to the call of gerar_todos
_gerar(w, rota, ibge, tipo, W) ==
    LET v == _validar_ibge(ibge)
    IN  IF v.erro # 0
        THEN Recusa(w, rota, ibge, tipo, W, v.erro)
        ELSE /\ Entra(w, rota, v.ibge, tipo, W, "limpar")
             /\ resp' = [resp EXCEPT ![w] = Resp0]

gerar_query(w) ==
    /\ Livre(w) /\ proc \in {"novo", "servidor"}
    /\ proc' = "servidor"
    /\ \E e \in Entradas, W \in Mundos :
         LET ibge == Strip(e)
         IN  IF ibge = <<>>
             THEN Recusa(w, "gerar_query", ibge, "", W, 400)
             ELSE _gerar(w, "gerar_query", ibge, "", W)

\* GET /gerar/<ibge> with the code drawn from entradas
GerarPath(w, entradas, mundos) ==
    /\ Livre(w) /\ proc \in {"novo", "servidor"}
    /\ proc' = "servidor"
    /\ \E e \in entradas, W \in mundos :
         _gerar(w, "gerar_path", e, "", W)

gerar_path(w) == GerarPath(w, Entradas \ {<<>>}, Mundos)

\* relatorio_individual without "if tipo not in TIPOS_VALIDOS"
RelatorioSemTesteDeTipo(w) ==
    /\ Livre(w) /\ proc \in {"novo", "servidor"}
    /\ proc' = "servidor"
    /\ \E e \in Entradas, t \in TiposPedidos, W \in Mundos :
         IF Strip(e) = <<>>
         THEN Recusa(w, "relatorio", Strip(e), Lower(t), W, 400)
         ELSE _gerar(w, "relatorio", Strip(e), Lower(t), W)

relatorio_individual(w) ==
    /\ Livre(w) /\ proc \in {"novo", "servidor"}
    /\ proc' = "servidor"
    /\ \E e \in Entradas, t \in TiposPedidos, W \in Mundos :
         LET ibge == Strip(e)
             tipo == Lower(t)
         IN  IF ibge = <<>>
             THEN Recusa(w, "relatorio", ibge, tipo, W, 400)
             ELSE IF ~\E i \in 1..Len(TIPOS_VALIDOS) : TIPOS_VALIDOS[i] = tipo
                  THEN Recusa(w, "relatorio", ibge, tipo, W, 400)
                  ELSE _gerar(w, "relatorio", ibge, tipo, W)

\* the two /municipio routes after their own checks
Identifica(w, rota, ibge, W) ==
    LET v == _validar_ibge(ibge)
    IN  IF v.erro # 0
        THEN Recusa(w, rota, ibge, "", W, v.erro)
        ELSE /\ Entra(w, rota, v.ibge, "", W, "descobrir")
             /\ resp' = [resp EXCEPT ![w] = Resp0]

identificar_municipio_query(w) ==
    /\ Livre(w) /\ proc \in {"novo", "servidor"}
    /\ proc' = "servidor"
    /\ \E e \in Entradas, W \in Mundos :
         LET ibge == Strip(e)
         IN  IF ibge = <<>>
             THEN Recusa(w, "municipio_query", ibge, "", W, 400)
             ELSE Identifica(w, "municipio_query", ibge, W)

identificar_municipio_path(w) ==
    /\ Livre(w) /\ proc \in {"novo", "servidor"}
    /\ proc' = "servidor"
    /\ \E e \in Entradas \ {<<>>}, W \in Mundos :
         Identifica(w, "municipio_path", e, W)

\* python gerador.py <ibge>: a process of its own, one run, no validation
cli_main(w) ==
    /\ Livre(w) /\ proc = "novo"
    /\ proc' = "cli"
    /\ \E e \in Entradas, W \in Mundos :
         /\ Entra(w, "cli", e, "", W, "limpar")
         /\ resp' = [resp EXCEPT ![w] = Resp0]

\* gerar_todos(ibge) called with the default output_dir=None
gerar_todos_direto(w) ==
    /\ Livre(w) /\ proc = "novo"
    /\ proc' = "interprete"
    /\ \E e \in Entradas, W \in Mundos :
         /\ Entra(w, "direto", e, "", W, "limpar")
         /\ resp' = [resp EXCEPT ![w] = Resp0]

\* ------------------------------------------------------------------------
\* gerar_todos, one action per statement that calls out
\* ------------------------------------------------------------------------
\* _clear_cache()
Limpar(w) ==
    /\ pc[w] = "limpar"
    /\ cache' = _clear_cache(Ctx0(cache)).cache
    /\ pc' = [pc EXCEPT ![w] = "descobrir"]
    /\ obs' = [obs EXCEPT ![w] = Observa(@, Ctx0(cache))]
    /\ UNCHANGED <<calc, proc, pedidos, req, amb, run, resp>>

\* the step of worker w ran with context ctx and goes on at passo
Avanca(w, ctx, passo) ==
    /\ cache' = ctx.cache
    /\ obs' = [obs EXCEPT ![w] = Observa(@, ctx)]
    /\ pc' = [pc EXCEPT ![w] = passo]
    /\ UNCHANGED <<calc, proc, pedidos, req, amb, resp>>

Descoberto(w, r) ==
    /\ Avanca(w, r.ctx, IF r.exc \/ req[w].rota \in RotasMunicipio
                        THEN "responder" ELSE "gerador")
    /\ run' = [run EXCEPT ![w].mun = r.mun, ![w].uf = r.uf,
                          ![w].fonte = r.fonte, ![w].exc = r.exc]

\* mun, uf_sigla = descobrir_municipio(ibge); also the body of /municipio
Descobrir(w) ==
    /\ pc[w] = "descobrir"
    /\ Descoberto(w, descobrir_municipio(Ctx0(cache), amb[w], run[w].ibge))

\* "try: txt = fn(...) except: txt = erro" and "arquivos[fname] = txt"
Gerado(w, nome, r) ==
    /\ Avanca(w, r.ctx, IF Len(run[w].arquivos) + 1 = Len(Geradores)
                        THEN "coletar" ELSE "gerador")
    /\ run' = [run EXCEPT ![w].arquivos = Append(@,
                 [fname |-> NomeArquivo(_slug(run[w].mun), nome),
                  nome |-> nome,
                  \* every text names its report kind in its title
                  txt |-> [marca |-> r.txt.marca, de |-> nome]])]

\* one turn of "for nome, fn in geradores"
Gerador(w) ==
    /\ pc[w] = "gerador"
    /\ Gerado(w, Geradores[Len(run[w].arquivos) + 1],
              Gerar(Geradores[Len(run[w].arquivos) + 1], Ctx0(cache), amb[w],
                    run[w].ibge))

Recolhido(w, r) ==
    /\ Avanca(w, r.ctx, IF r.exc THEN "responder" ELSE "gravar")
    /\ run' = [run EXCEPT ![w].dados = r.dados, ![w].exc = r.exc]

\* dados_estruturados = coletar_dados_estruturados(ibge, mun, uf_sigla)
Coletar(w) ==
    /\ pc[w] = "coletar"
    /\ Recolhido(w, coletar_dados_estruturados(Ctx0(cache), amb[w], run[w].ibge))

\* output_dir of the call: app.py and the command line pass a path
OutputDir(w) == req[w].rota # "direto"

\* Gravar without "if output_dir:"
GravarSemTeste(w) ==
    /\ pc[w] = "gravar"
    /\ run' = [run EXCEPT ![w].gravados = run[w].arquivos,
                          ![w].devolveu = TRUE]
    /\ pc' = [pc EXCEPT ![w] = "responder"]
    /\ obs' = [obs EXCEPT ![w] = Observa(@, Ctx0(cache))]
    /\ UNCHANGED <<calc, proc, cache, pedidos, req, amb, resp>>

\* "if output_dir:", the files written, and the return
Gravar(w) ==
    /\ pc[w] = "gravar"
    /\ run' = [run EXCEPT ![w].gravados = IF OutputDir(w) THEN run[w].arquivos
                                          ELSE <<>>,
                          ![w].devolveu = TRUE]
    /\ pc' = [pc EXCEPT ![w] = "responder"]
    /\ obs' = [obs EXCEPT ![w] = Observa(@, Ctx0(cache))]
    /\ UNCHANGED <<calc, proc, cache, pedidos, req, amb, resp>>

\* ------------------------------------------------------------------------
\* Responses
\* ------------------------------------------------------------------------
\* the first kind of TIPOS_VALIDOS that occurs in the file name, "" if none
RECURSIVE TipoDe(_, _)
TipoDe(fname, k) ==
    IF k > Len(TIPOS_VALIDOS) THEN ""
    ELSE IF Contem(fname, TIPOS_VALIDOS[k]) THEN TIPOS_VALIDOS[k]
    ELSE TipoDe(fname, k + 1)

\* "for fname, conteudo in resultado['arquivos'].items()" of _gerar
RECURSIVE Organiza(_, _, _)
Organiza(arquivos, i, relatorios) ==
    IF i > Len(arquivos) THEN relatorios
    ELSE LET tipo == TipoDe(arquivos[i].fname, 1)
         IN  Organiza(arquivos, i + 1,
                      IF tipo = "" THEN relatorios
                      ELSE (tipo :> arquivos[i].txt) @@ relatorios)

\* the rest of _gerar and of its route once gerar_todos returned or raised
ResponderGeracao(w) ==
    /\ pc[w] = "responder" /\ req[w].rota \in {"gerar_query", "gerar_path", "relatorio"}
    /\ LET relatorios == Organiza(run[w].arquivos, 1, <<>>)
           bundle == [status |-> 200, corpo |-> "bundle",
                      relatorios |-> relatorios,
                      total |-> Cardinality(DOMAIN relatorios),
                      tipo |-> IF is_estado(run[w].ibge)
                               THEN "estado" ELSE "municipio",
                      dados |-> run[w].dados]
       IN  resp' = [resp EXCEPT ![w] =
              IF run[w].exc
              THEN [Resp0 EXCEPT !.status = 500, !.corpo = "erro"]
              ELSE IF req[w].rota # "relatorio" THEN bundle
              ELSE IF req[w].tipo \notin DOMAIN relatorios
                   THEN [Resp0 EXCEPT !.status = 404, !.corpo = "erro"]
                   ELSE [Resp0 EXCEPT !.status = 200, !.corpo = "texto",
                            !.relatorios =
                               (req[w].tipo :> relatorios[req[w].tipo])]]
    /\ pc' = [pc EXCEPT ![w] = "fim"]
    /\ obs' = [obs EXCEPT ![w] = Observa(@, Ctx0(cache))]
    /\ UNCHANGED <<calc, proc, cache, pedidos, req, amb, run>>

\* jsonify(municipio=mun, uf=uf, ibge=ibge); an exception is Flask's 500
ResponderMunicipio(w) ==
    /\ pc[w] = "responder" /\ req[w].rota \in RotasMunicipio
    /\ resp' = [resp EXCEPT ![w] =
                  IF run[w].exc
                  THEN [Resp0 EXCEPT !.status = 500, !.corpo = "erro"]
                  ELSE [Resp0 EXCEPT !.status = 200, !.corpo = "entidade"]]
    /\ pc' = [pc EXCEPT ![w] = "fim"]
    /\ obs' = [obs EXCEPT ![w] = Observa(@, Ctx0(cache))]
    /\ UNCHANGED <<calc, proc, cache, pedidos, req, amb, run>>

\* the prints that end the command line; an exception ends it with status 1
ResponderCli(w) ==
    /\ pc[w] = "responder" /\ req[w].rota \in {"cli", "direto"}
    /\ resp' = [resp EXCEPT ![w] =
                  IF run[w].exc
                  THEN [Resp0 EXCEPT !.status = 1, !.corpo = "erro"]
                  ELSE [Resp0 EXCEPT !.corpo = "lista",
                                     !.total = Len(run[w].arquivos)]]
    /\ pc' = [pc EXCEPT ![w] = "fim"]
    /\ obs' = [obs EXCEPT ![w] = Observa(@, Ctx0(cache))]
    /\ UNCHANGED <<calc, proc, cache, pedidos, req, amb, run>>

\* the response is sent (add_cors) and the worker is free again
add_cors(w) ==
    /\ pc[w] = "fim" /\ proc = "servidor"
    /\ pc' = [pc EXCEPT ![w] = "idle"]
    /\ req' = [req EXCEPT ![w] = Req0]
    /\ amb' = [amb EXCEPT ![w] = MundoBase]
    /\ run' = [run EXCEPT ![w] = Run0]
    /\ resp' = [resp EXCEPT ![w] = Resp0]
    /\ obs' = [obs EXCEPT ![w] = Obs0]
    /\ UNCHANGED <<calc, proc, cache, pedidos>>

\* ------------------------------------------------------------------------
\* Specifications
\* ------------------------------------------------------------------------
Passo(w) ==
    \/ gerar_query(w)
    \/ gerar_path(w)
    \/ relatorio_individual(w)
    \/ identificar_municipio_query(w)
    \/ identificar_municipio_path(w)
    \/ cli_main(w)
    \/ gerar_todos_direto(w)
    \/ Limpar(w)
    \/ Descobrir(w)
    \/ Gerador(w)
    \/ Coletar(w)
    \/ Gravar(w)
    \/ ResponderGeracao(w)
    \/ ResponderMunicipio(w)
    \/ ResponderCli(w)
    \/ add_cors(w)

\* requests are served one after another, by one worker
Next == Passo(1)

Spec == Init /\ [][Next]_vars

\* Two requests of /gerar/<ibge> in one process, their steps interleaved: the
\* threads of the server share _FETCH_CACHE.
EntradasConc == { <<"2","3","0","4","4","0","0">> }

MundosConc == { MundoBase, [MundoBase EXCEPT !.falhas = Tentativas] }

gerar_path_conc(w) == GerarPath(w, EntradasConc, MundosConc)

PassoConc(w) ==
    \/ gerar_path_conc(w)
    \/ Limpar(w)
    \/ Descobrir(w)
    \/ Gerador(w)
    \/ Coletar(w)
    \/ Gravar(w)
    \/ ResponderGeracao(w)
    \/ add_cors(w)

NextConc == \E w \in Workers : PassoConc(w)

SpecConc == Init /\ [][NextConc]_vars

\* ------------------------------------------------------------------------
\* Vocabulary of the properties
\* ------------------------------------------------------------------------
\* worker w serves a request that calls gerar_todos
EmGeracao(w) == req[w].rota \in RotasGeracao

\* the code is not all digits, or its length is neither 2 nor 7
Malformado(codigo) ==
    ~IsDigit(Strip(codigo)) \/ Len(Strip(codigo)) \notin {2, 7}

\* every remote fetch of the request of w fails on every attempt
TudoFalha(w) == amb[w].falhas >= Tentativas

\* gerar_todos of w has ended, by returning or by raising
Terminou(w) == EmGeracao(w) /\ pc[w] = "responder"

\* 'arquivos' has one entry per report kind, under five different names
CincoTextos(w) ==
    /\ Len(run[w].arquivos) = Len(Geradores)
    /\ \A i \in 1..Len(run[w].arquivos) : run[w].arquivos[i].nome = Geradores[i]
    /\ Cardinality({run[w].arquivos[i].fname : i \in 1..Len(run[w].arquivos)})
         = Len(Geradores)

\* the bundle gerar_todos returned is complete
BundleCompleto(w) ==
    /\ run[w].devolveu
    /\ CincoTextos(w)
    /\ run[w].dados.tipo \in {"estado", "municipio"}

\* the marker of the text of report kind nome
Marca(w, nome) ==
    LET i == CHOOSE j \in 1..Len(run[w].arquivos) : run[w].arquivos[j].nome = nome
    IN  run[w].arquivos[i].txt.marca

\* ------------------------------------------------------------------------
\* C1
\* ------------------------------------------------------------------------
\* C1 (as amended): for a well-formed code, when every remote fetch fails,
\* gerar_todos returns five texts, one per report kind, and the structured
\* summary; the aprendizado, infra, censo and taxa_rendimento texts hold the
\* no-data placeholder, and the ideb text holds it exactly when the local
\* reference tables are missing or have no row for the code.
SemRedeQuatroSemDados ==
    \A w \in Workers :
        (Terminou(w) /\ TudoFalha(w) /\ ~Malformado(req[w].ibge)) =>
            /\ BundleCompleto(w)
            /\ \A nome \in {"aprendizado", "infra", "censo", "taxa_rendimento"} :
                   Marca(w, nome) = "sem_dados"
            /\ (Marca(w, "ideb") = "sem_dados"
                   <=> amb[w].csv \in {"ausente", "semlinhas"})

\* every fetch failed, the bundle is back, and the ideb text is a full report
\* drawn from the reference tables
SemRedeIdebCompleto ==
    \E w \in Workers :
        /\ Terminou(w) /\ TudoFalha(w) /\ ~Malformado(req[w].ibge)
        /\ BundleCompleto(w)
        /\ Marca(w, "censo") = "sem_dados"
        /\ Marca(w, "ideb") = "relatorio"

\* C1 as stated: when every remote fetch fails, each of the five texts holds
\* the no-data placeholder.
SemRedeCincoSemDados ==
    \A w \in Workers :
        (Terminou(w) /\ TudoFalha(w) /\ ~Malformado(req[w].ibge)) =>
            /\ BundleCompleto(w)
            /\ \A i \in 1..Len(run[w].arquivos) :
                   run[w].arquivos[i].txt.marca = "sem_dados"

\* ------------------------------------------------------------------------
\* C2
\* ------------------------------------------------------------------------
\* a renderer of the run of w raised: its entry is the inline error text
TextoComErro(w) ==
    \E i \in 1..Len(run[w].arquivos) : run[w].arquivos[i].txt.marca = "erro"

\* C2 as stated: if a renderer raised during gerar_todos, the remaining
\* renderers still ran and gerar_todos returned the complete bundle.
ErroDeRenderizadorNaoAborta ==
    \A w \in Workers :
        (Terminou(w) /\ TextoComErro(w)) => BundleCompleto(w)

\* a renderer raised, the other four texts are there, and gerar_todos raised
\* in the collector instead of returning
ErroDeRenderizadorAborta ==
    \E w \in Workers :
        /\ Terminou(w) /\ TextoComErro(w) /\ CincoTextos(w)
        /\ run[w].exc /\ ~run[w].devolveu

\* ------------------------------------------------------------------------
\* C3
\* ------------------------------------------------------------------------
RECURSIVE Reverso(_)
Reverso(s) == IF s = <<>> THEN <<>> ELSE Append(Reverso(Tail(s)), Head(s))

\* C3: within one gerar_todos run, requests served one after another, only
\* the first fetch_json call of a (url, params) key goes to the network, every
\* later call returns the value of the first, None included, and the key does
\* not depend on the order of the params.
UmaIdaARedePorChave ==
    \A w \in Workers :
        EmGeracao(w) =>
            /\ ~obs[w].dup
            /\ ~obs[w].difere
            /\ \A i \in 1..Len(obs[w].log) :
                   /\ obs[w].log[i].tent <= Tentativas
                   /\ CacheKey(obs[w].log[i].key[1],
                               Reverso(obs[w].log[i].key[2])) = obs[w].log[i].key
                   /\ obs[w].log[i].key \in DOMAIN obs[w].rede
                        => obs[w].log[i].val = obs[w].rede[obs[w].log[i].key]

\* a call of the run was answered None from the cache, for a key whose first
\* call failed on the network earlier in the same run
NoneVemDoCache ==
    \E w \in Workers :
        /\ EmGeracao(w)
        /\ \E i \in 1..Len(obs[w].log) :
               /\ obs[w].log[i].tent = 0
               /\ obs[w].log[i].val = None
               /\ obs[w].log[i].key \in DOMAIN obs[w].rede
               /\ obs[w].rede[obs[w].log[i].key] = None

\* ------------------------------------------------------------------------
\* C4
\* ------------------------------------------------------------------------
\* C4: with requests served one after another, the cache is empty when a
\* gerar_todos run issues its first fetch, and no fetch of the run is answered
\* with a value of an earlier run or of an earlier /municipio request.
CacheVazioNoInicio ==
    \A w \in Workers :
        EmGeracao(w) =>
            /\ pc[w] = "descobrir" => cache = <<>>
            /\ ~obs[w].alheio

\* a run that came in with entries of an earlier request in the cache has
\* fetched one of those keys again over the network
HerdadoBuscadoDeNovo ==
    \E w \in Workers :
        /\ EmGeracao(w)
        /\ obs[w].herdado \cap DOMAIN obs[w].rede # {}

\* ------------------------------------------------------------------------
\* C5
\* ------------------------------------------------------------------------
\* C5 as stated: when two gerar_todos runs interleave in one process, each
\* run goes to the network at most once per (url, params) key and is answered
\* from the cache only with values it fetched itself.
CorridasNaoInterferem ==
    \A w \in Workers :
        EmGeracao(w) => (~obs[w].dup /\ ~obs[w].alheio)

\* a run went to the network twice for one key, the other run having cleared
\* the cache in between
CorridaBuscaDuasVezes ==
    \E w \in Workers : EmGeracao(w) /\ obs[w].dup

\* ------------------------------------------------------------------------
\* C6
\* ------------------------------------------------------------------------
\* the request of w has gone to the network
FoiARede(w) == DOMAIN obs[w].rede # {}

\* C6 as stated: through every entry point, a malformed code causes no
\* network request.
MalformadoNuncaVaiARede ==
    \A w \in Workers :
        (req[w].rota # "" /\ Malformado(req[w].ibge)) => ~FoiARede(w)

\* the command line was given a malformed code and went to the network
CliMalformadoVaiARede ==
    \E w \in Workers :
        req[w].rota = "cli" /\ Malformado(req[w].ibge) /\ FoiARede(w)

\* ------------------------------------------------------------------------
\* C7
\* ------------------------------------------------------------------------
GeracaoHttp(w) == req[w].rota \in {"gerar_query", "gerar_path", "relatorio"}

\* the response carries an error body and nothing of a bundle
SemBundle(w) ==
    /\ resp[w].corpo = "erro"
    /\ resp[w].relatorios = <<>>
    /\ resp[w].total = 0
    /\ resp[w].dados = Resp0.dados

\* C7: on /gerar, /gerar/<code> and /relatorio a malformed or empty code is
\* answered 400 and an exception inside gerar_todos is answered 500 with an
\* error body; neither response carries any part of a bundle.
CodigoRuim400Excecao500 ==
    \A w \in Workers :
        (GeracaoHttp(w) /\ pc[w] = "fim") =>
            /\ Malformado(req[w].ibge) => (resp[w].status = 400 /\ SemBundle(w))
            /\ run[w].exc => (resp[w].status = 500 /\ SemBundle(w))

\* gerar_todos raised after the five texts were rendered; the response is a
\* 500 that carries none of them
Excecao500SemTextos ==
    \E w \in Workers :
        /\ GeracaoHttp(w) /\ pc[w] = "fim"
        /\ run[w].exc /\ CincoTextos(w)
        /\ resp[w].status = 500 /\ SemBundle(w)

\* ------------------------------------------------------------------------
\* C8
\* ------------------------------------------------------------------------
TipoValido(tipo) == \E i \in 1..Len(TIPOS_VALIDOS) : TIPOS_VALIDOS[i] = tipo

\* C8 (as amended): GET /relatorio answers 400 when tipo is absent or names
\* none of the five report kinds; it answers 404 only for a well-formed code
\* and a valid tipo, when gerar_todos returned and no file of the bundle was
\* filed under that kind.
TipoInvalido400 ==
    \A w \in Workers :
        (req[w].rota = "relatorio" /\ pc[w] = "fim") =>
            /\ ~TipoValido(req[w].tipo) => resp[w].status = 400
            /\ resp[w].status = 404 =>
                 /\ TipoValido(req[w].tipo)
                 /\ ~Malformado(req[w].ibge)
                 /\ run[w].devolveu
                 /\ req[w].tipo \notin DOMAIN Organiza(run[w].arquivos, 1, <<>>)

\* /relatorio with a well-formed code and a tipo that names no report kind
\* was answered 400, before any fetch
TipoInvalidoRespondido400 ==
    \E w \in Workers :
        /\ req[w].rota = "relatorio" /\ pc[w] = "fim"
        /\ ~Malformado(req[w].ibge) /\ ~TipoValido(req[w].tipo)
        /\ resp[w].status = 400 /\ ~FoiARede(w)

\* C8 as stated: GET /relatorio answers 404 whenever tipo is absent or names
\* none of the five report kinds.
TipoInvalido404 ==
    \A w \in Workers :
        (/\ req[w].rota = "relatorio" /\ pc[w] = "fim"
         /\ ~Malformado(req[w].ibge) /\ ~TipoValido(req[w].tipo))
            => resp[w].status = 404

\* ------------------------------------------------------------------------
\* C9, C10
\* ------------------------------------------------------------------------
\* the year a fetch_json call asked for
AnoDaChave(key) == ParamVal(key[2], "ano")

\* the test each resolver applies to a payload before it returns it
NaoVazio(fn, d) == Truthy(d) /\ (fn = "fetch_taxa" => TaxaTemDados(d))

\* the years the records of a pass-fail payload carry
AnosDosRegistros(d) ==
    ({d.mun[i] : i \in 1..Len(d.mun)} \cup {d.br[i] : i \in 1..Len(d.br)}) \ {0}

\* C9 (as amended): a year other than 0 comes with a non-empty payload;
\* fetch_censo and fetch_infra return the year of the request that gave that
\* payload; fetch_taxa returns the largest 'ano' of the records of the
\* payload, and the year of the request only when no record carries one.
AnoDevolvidoTemDados ==
    \A w \in Workers : \A k \in 1..Len(obs[w].res) :
        LET e == obs[w].res[k]
            L == obs[w].log
        IN  e.a # 0 =>
              /\ NaoVazio(e.fn, e.d)
              /\ e.fn \in {"fetch_censo", "fetch_infra"} =>
                   \E j \in e.de..e.ate :
                       AnoDaChave(L[j].key) = e.a /\ L[j].val = e.d
              /\ e.fn = "fetch_taxa" =>
                   \E j \in e.de..e.ate :
                       /\ L[j].val = e.d
                       /\ IF AnosDosRegistros(e.d) = {}
                          THEN e.a = AnoDaChave(L[j].key)
                          ELSE /\ e.a \in AnosDosRegistros(e.d)
                               /\ \A y \in AnosDosRegistros(e.d) : y <= e.a

\* fetch_taxa returned a year that none of its requests asked for
TaxaDevolveAnoNaoPedido ==
    \E w \in Workers : \E k \in 1..Len(obs[w].res) :
        LET e == obs[w].res[k]
        IN  /\ e.fn = "fetch_taxa" /\ e.a # 0
            /\ \A j \in e.de..e.ate : AnoDaChave(obs[w].log[j].key) # e.a

\* C9 as stated: a year other than 0 is the year of a request of the call
\* that returned a non-empty payload.
AnoDevolvidoFoiPedido ==
    \A w \in Workers : \A k \in 1..Len(obs[w].res) :
        LET e == obs[w].res[k]
        IN  e.a # 0 =>
              \E j \in e.de..e.ate :
                  /\ AnoDaChave(obs[w].log[j].key) = e.a
                  /\ NaoVazio(e.fn, obs[w].log[j].val)

\* C10: without an explicit year a resolver that does not raise asks for
\* current year, current year - 1, ... in that order, for at most 6 years;
\* every request but the last gave an empty payload; it returns the payload
\* of the last request when that is not empty, and (None, 0) after exactly 6
\* empty years otherwise.
JanelaDescendenteDeSeis ==
    \A w \in Workers : \A k \in 1..Len(obs[w].res) :
        LET e == obs[w].res[k]
            L == obs[w].log
            n == e.ate - e.de + 1
        IN  ~e.exc =>
              /\ n \in 1..6
              /\ \A j \in 1..n : AnoDaChave(L[e.de + j - 1].key) = ANO_ATUAL - (j - 1)
              /\ \A j \in 1..(n - 1) : ~NaoVazio(e.fn, L[e.de + j - 1].val)
              /\ IF NaoVazio(e.fn, L[e.ate].val)
                 THEN e.d = L[e.ate].val /\ e.a # 0
                 ELSE n = 6 /\ e.d = None /\ e.a = 0

\* fetch_censo stopped at the third year, after a year whose request failed
\* and a year whose payload was empty
CensoParaNoTerceiroAno ==
    \E w \in Workers : \E k \in 1..Len(obs[w].res) :
        LET e == obs[w].res[k]
            L == obs[w].log
        IN  /\ e.fn = "fetch_censo" /\ e.ate - e.de + 1 = 3
            /\ L[e.de].val = None /\ L[e.de + 1].val = Vazio
            /\ e.a = ANO_ATUAL - 2 /\ e.d = L[e.ate].val

\* ------------------------------------------------------------------------
\* The formatting and classification helpers, called on their own
\* ------------------------------------------------------------------------
Programa == <<proc, cache, pedidos, pc, req, amb, run, resp, obs>>

Valores ==
    {v \in (0 - MaxMilli)..MaxMilli :
        Abs(v) <= 1010 \/ (~Empate(v, 1) /\ ~Empate(v, 2))}
    \cup {100 * k : k \in 0..MaxDecimos}

Opcionais == {Nenhum, NaN} \cup {Num(v) : v \in Valores}

Niveis == {"adequado", "proficiente", "avancado"}

Registros ==
    [{<<d, n>> : d \in {DISCIPLINAS[i] : i \in DOMAIN DISCIPLINAS},
                 n \in Niveis}
        -> {Nenhum, Num(0), Num(250), NaN}]

\* basico and insuficiente of the latest record
Pares == {Nenhum, NaN, Num(0), Num(120), Num(300)}

AnosIdeb == {ANO_ATUAL - 7, ANO_ATUAL - 5}

LinhasIdeb ==
    [ano : AnosIdeb, valor : {NaN, Num(0), Num(3500), Num(4500)}]

\* df_ideb is sorted by "ano"
SeriesIdeb ==
    UNION {{l \in [1..n -> LinhasIdeb] :
               \A i \in 1..n : \A j \in 1..n : i < j => l[i].ano <= l[j].ano}
           : n \in 0..MaxLinhas}

Bibliotecas == {"numpy", "falha", "ausente"}

AnosDe(linhas) == [i \in DOMAIN linhas |-> linhas[i].ano]

InitCalc ==
    /\ InitPrograma
    /\ \/ \E x \in Opcionais : calc = [Calc0 EXCEPT !.de = "numero", !.x = x]
       \/ \E x \in Pares : \E y \in Pares :
              calc = [Calc0 EXCEPT !.de = "par", !.x = x, !.y = y]
       \/ \E r \in Registros : calc = [Calc0 EXCEPT !.de = "registro", !.rec = r]
       \/ \E l \in SeriesIdeb : calc = [Calc0 EXCEPT !.de = "linhas", !.linhas = l]

Pronto(de) == calc.fn = "" /\ calc.de = de

Chamada(fn, arg, val, out) ==
    /\ calc' = [calc EXCEPT !.fn = fn, !.arg = arg, !.val = val, !.out = out]
    /\ UNCHANGED Programa

\* the percentage a helper works with, for the raw value x
Normalizado(x, val) == IF x.falta = "" THEN Num(val) ELSE x

FormataPct ==
    /\ Pronto("numero")
    /\ Chamada("_pct", "", Normalizado(calc.x, PctVal(calc.x.v)), _pct(calc.x))

FormataPp ==
    /\ Pronto("numero")
    /\ \E decimais \in {1, 2} :
           Chamada("_pp", Algarismos[decimais + 1],
                   Normalizado(calc.x, PpVal(calc.x.v)), _pp(calc.x, decimais))

FormataVal ==
    /\ Pronto("numero")
    /\ ~Empate(calc.x.v, 2)
    /\ Chamada("_val", "", calc.x, _val(calc.x))

FormataSafeTaxa ==
    /\ Pronto("numero")
    /\ Chamada("_safe_taxa", "", Normalizado(calc.x, SafeTaxaVal(calc.x.v)),
               _safe_taxa(calc.x))

ClassificaDesempenho ==
    /\ Pronto("numero")
    /\ Chamada("_classificar_desempenho", "",
               Normalizado(calc.x, DesempenhoVal(calc.x.v)),
               _classificar_desempenho(calc.x))

ClassificaTaxa ==
    /\ Pronto("numero")
    /\ \E tipo \in TiposTaxa :
           Chamada("_classificar_taxa", tipo,
                   Normalizado(calc.x, TaxaVal(calc.x.v)),
                   _classificar_taxa(calc.x, tipo))

TabelaEvolucao ==
    /\ Pronto("numero")
    /\ Chamada("evolucao", "",
               IF calc.x.falta = "nan" THEN NaN ELSE Num(EvolucaoVal(calc.x)),
               CelulaEvolucao(calc.x))

Diagnostico ==
    /\ Pronto("par")
    /\ Chamada("inadequado", "", Mais(Ou0(calc.x), Ou0(calc.y)),
               Inadequado(calc.x, calc.y))

ResumeAprendizado ==
    /\ Pronto("numero")
    /\ Chamada("resumo_aprendizado", "",
               Normalizado(calc.x, ResumoAprendizadoVal(calc.x.v)),
               ResumoAprendizado(calc.x))

ResumeTaxa ==
    /\ Pronto("numero")
    /\ Chamada("resumo_taxa", "",
               IF calc.x.falta = "" /\ calc.x.v # 0
               THEN Num(ResumoTaxaVal(calc.x.v))
               ELSE IF calc.x.falta = "nan" THEN NaN ELSE Nenhum,
               ResumoTaxa(calc.x))

CalculaAdeq ==
    /\ Pronto("registro")
    /\ \E i \in DOMAIN DISCIPLINAS :
           Chamada("_adeq", DISCIPLINAS[i], Nenhum,
                   _adeq(calc.rec, DISCIPLINAS[i]))

Tendencia(anos, valores, np) ==
    /\ calc' = [calc EXCEPT !.fn = "_trend_slope", !.arg = np,
                            !.anos = anos, !.valores = valores,
                            !.out = _trend_slope(anos, valores, np)]
    /\ UNCHANGED Programa

\* _trend_slope on any series
TendenciaDireta ==
    /\ Pronto("linhas")
    /\ \E np \in Bibliotecas :
           Tendencia(AnosDe(calc.linhas), ValsList(calc.linhas), np)

\* _trend_slope as gerar_txt_ideb calls it; pandas needs numpy, so that
\* np is not None there
TendenciaIdeb ==
    /\ Pronto("linhas")
    /\ Len(Limpos(calc.linhas, "valor")) >= 2
    /\ \E np \in Bibliotecas \ {"ausente"} :
           Tendencia(Limpos(calc.linhas, "ano"), Limpos(calc.linhas, "valor"),
                     np)

NextCalc ==
    \/ FormataPct
    \/ FormataPp
    \/ FormataVal
    \/ FormataSafeTaxa
    \/ ClassificaDesempenho
    \/ ClassificaTaxa
    \/ TabelaEvolucao
    \/ Diagnostico
    \/ ResumeAprendizado
    \/ ResumeTaxa
    \/ CalculaAdeq
    \/ TendenciaDireta
    \/ TendenciaIdeb

SpecCalc == InitCalc /\ [][NextCalc]_vars

\* ------------------------------------------------------------------------
\* C11
\* ------------------------------------------------------------------------
\* the fetch_json calls of the last step of w that went to the learning
\* endpoint
ChamadasAprendizado(w) ==
    {i \in 1..Len(obs[w].log) : obs[w].log[i].key[1][1] = "aprendizado"}

\* C11 as stated: every request for learning data asks for a year of the
\* sequence of _anos_saeb.
AprendizadoPedeAnoSaeb ==
    \A w \in Workers : \A i \in ChamadasAprendizado(w) :
        /\ HasParam(obs[w].log[i].key[2], "ano")
        /\ \E k \in DOMAIN _anos_saeb :
               ParamVal(obs[w].log[i].key[2], "ano") = _anos_saeb[k]

\* the learning renderer got an empty answer for each of the three cycles
\* from one request each, none of which names a year
AprendizadoVazioSemOutroAno ==
    \E w \in Workers :
        /\ Cardinality(ChamadasAprendizado(w)) = Len(CICLOS)
        /\ Len(obs[w].log) = Len(CICLOS)
        /\ \A i \in ChamadasAprendizado(w) :
               /\ ~Truthy(obs[w].log[i].val)
               /\ obs[w].log[i].tent > 0
               /\ ~HasParam(obs[w].log[i].key[2], "ano")

\* ------------------------------------------------------------------------
\* C12
\* ------------------------------------------------------------------------
\* C12: a fetch_json call for an uncached key makes between 1 and 3 attempts;
\* every attempt before the last one failed; if the last attempt succeeded
\* its body is returned, otherwise 3 attempts were made, None is returned and
\* None is what the cache holds for the key.
AteTresTentativas ==
    \A w \in Workers : \A i \in 1..Len(obs[w].log) :
        LET e == obs[w].log[i]
        IN  e.tent > 0 =>
              /\ e.tent \in 1..3
              /\ \A k \in 0..(e.tent - 2) : ~TentativaOk(amb[w], e.key[2], k)
              /\ IF TentativaOk(amb[w], e.key[2], e.tent - 1)
                 THEN e.val = Resposta(amb[w], e.key[1], e.key[2])
                 ELSE /\ e.tent = 3
                      /\ e.val = None
                      /\ e.key \in DOMAIN cache
                      /\ cache[e.key] = None

\* a call got its body on the third attempt, after two failed ones
TerceiraTentativaResponde ==
    \E w \in Workers : \E i \in 1..Len(obs[w].log) :
        /\ obs[w].log[i].tent = 3
        /\ obs[w].log[i].val # None
        /\ Truthy(obs[w].log[i].val)

\* ------------------------------------------------------------------------
\* C13
\* ------------------------------------------------------------------------
\* the last step of w was the collector, which returned or raised
AposColetor(w) ==
    /\ EmGeracao(w)
    /\ Len(run[w].arquivos) = Len(Geradores)
    /\ pc[w] = "gravar" \/ (pc[w] = "responder" /\ run[w].exc)

Percentagem(x) ==
    x.falta = "" /\ x.v >= 0 /\ x.v <= 100 * MaxDecimos /\ x.v % 100 = 0

\* C14 as stated: for a percentage p of one decimal, _pct(p) is the string
\* _pct(p / 100), and _safe_taxa(p) is the string _safe_taxa(p / 100).
EscalaIndiferente ==
    /\ (calc.fn = "_pct" /\ Percentagem(calc.x)) =>
           calc.out = _pct(Num(calc.x.v \div 100))
    /\ (calc.fn = "_safe_taxa" /\ Percentagem(calc.x)) =>
           calc.out = _safe_taxa(Num(calc.x.v \div 100))

\* 65.5 and 0.655 are both shown as "65.5%"
SessentaECincoNasDuasEscalas ==
    /\ calc.fn = "_pct" /\ calc.x = Num(65500)
    /\ calc.out = <<"6", "5", ".", "5", "%">>
    /\ _pct(Num(655)) = calc.out

\* ------------------------------------------------------------------------
\* C15
\* ------------------------------------------------------------------------
LugaresDePercentagem ==
    {"_pct", "_pp", "_safe_taxa", "_classificar_desempenho",
     "_classificar_taxa", "evolucao", "resumo_aprendizado", "resumo_taxa"}

\* C15 as stated: every place that turns a raw rate into a percentage works
\* with 100 times the value when its absolute value is at most 1.01 and with
\* the value itself otherwise.
MesmaRegraEmTodaParte ==
    (calc.fn \in LugaresDePercentagem /\ calc.x.falta = "") =>
        calc.val = Num(IF Abs(calc.x.v) <= 1010 THEN calc.x.v * 100
                       ELSE calc.x.v)

\* the structured summary multiplied a rate that was already a percentage
ResumoTaxaEscalaDuasVezes ==
    /\ calc.fn = "resumo_taxa" /\ calc.x = Num(95300)
    /\ calc.out = Num(953000)

\* ------------------------------------------------------------------------
\* C16
\* ------------------------------------------------------------------------
LugaresDeTexto ==
    {"_pct", "_pp", "_val", "_safe_taxa", "evolucao", "inadequado"}

\* the source value of the text is absent
FonteAusente ==
    /\ calc.fn \in LugaresDeTexto
    /\ calc.x.falta # ""
    /\ calc.fn = "inadequado" => calc.y.falta # ""

\* C16 as stated: a metric whose source value is None or NaN is rendered as
\* "sem dados" or "N/D".
FaltaViraSentinela ==
    FonteAusente => calc.out \in {<<"sem dados">>, <<"N/D">>}

\* the evolution table shows an absent value as 0.0%
EvolucaoMostraZero ==
    /\ calc.fn = "evolucao" /\ calc.x = Nenhum
    /\ calc.out = <<" ", " ", " ", "0", ".", "0", "%">>

\* ------------------------------------------------------------------------
\* C17
\* ------------------------------------------------------------------------
\* the value of a field of the record _adeq was called on, 0 for None
ZeroSeNone(nivel) ==
    IF calc.rec[<<calc.arg, nivel>>].falta = "None" THEN 0
    ELSE calc.rec[<<calc.arg, nivel>>].v

AlgumNaN(niveis) ==
    \E n \in niveis : calc.rec[<<calc.arg, n>>].falta = "nan"

\* C17: _adeq returns the adequate field when it is not None; otherwise, when
\* proficient or advanced is not None, their sum with None counted as 0 (NaN
\* when one of them is NaN); and None exactly when all three are None.
AdeqExplicitoOuSoma ==
    calc.fn = "_adeq" =>
        /\ calc.rec[<<calc.arg, "adequado">>].falta # "None" =>
               calc.out = calc.rec[<<calc.arg, "adequado">>]
        /\ (/\ calc.rec[<<calc.arg, "adequado">>].falta = "None"
            /\ \E n \in {"proficiente", "avancado"} :
                   calc.rec[<<calc.arg, n>>].falta # "None") =>
               calc.out = IF AlgumNaN({"proficiente", "avancado"}) THEN NaN
                          ELSE Num(ZeroSeNone("proficiente")
                                   + ZeroSeNone("avancado"))
        /\ calc.out = Nenhum <=>
               \A n \in Niveis : calc.rec[<<calc.arg, n>>].falta = "None"

\* no adequate field, advanced only: the sum counts proficient as 0
AdeqSoAvancado ==
    /\ calc.fn = "_adeq"
    /\ calc.rec[<<calc.arg, "adequado">>] = Nenhum
    /\ calc.rec[<<calc.arg, "proficiente">>] = Nenhum
    /\ calc.rec[<<calc.arg, "avancado">>] = Num(250)
    /\ calc.out = Num(250)

\* ------------------------------------------------------------------------
\* C18
\* ------------------------------------------------------------------------
\* C18 as stated: _trend_slope returns 0 for fewer than 2 points; with 2 or
\* more and no regression it returns (last value - first value) divided by
\* (last year - first year), for every series, those whose first and last
\* year are equal included.
QuedaParaDiferencaDefinida ==
    calc.fn = "_trend_slope" =>
        /\ Len(calc.anos) < 2 =>
               calc.out.tipo = "float" /\ calc.out.num = 0
        /\ (Len(calc.anos) >= 2 /\ calc.arg # "numpy") =>
               /\ calc.out.tipo = "float"
               /\ calc.out.num * (calc.anos[Len(calc.anos)] - calc.anos[1])
                  = (calc.valores[Len(calc.valores)] - calc.valores[1])
                    * calc.out.den

\* the regression failed on a series gerar_txt_ideb handed over whose rows
\* are all of one year
DivisaoPorZeroNoIdeb ==
    /\ calc.fn = "_trend_slope" /\ calc.arg = "falha"
    /\ calc.anos = Limpos(calc.linhas, "ano")
    /\ calc.out.tipo = "ZeroDivisionError"

\* ------------------------------------------------------------------------
\* C19
\* ------------------------------------------------------------------------
\* the last step of w was descobrir_municipio, which returned, for a code
\* that is not a key of UF_CODES
AposDescobrir(w) ==
    /\ run[w].fonte \notin {"", "uf"}
    /\ ~run[w].exc
    /\ run[w].arquivos = <<>>
    /\ pc[w] = "gerador" \/ (pc[w] = "responder" /\ req[w].rota \in RotasMunicipio)

ChamadasA(w, endpoint) ==
    {i \in 1..Len(obs[w].log) : obs[w].log[i].key[1][1] = endpoint}

\* the answer of call i of the last step of w carries a name
DaNome(w, i) ==
    /\ Truthy(obs[w].log[i].val)
    /\ obs[w].log[i].val.nome # SemNome
    /\ obs[w].log[i].key[1][1] = "taxa-rendimento" =>
           obs[w].log[i].val.mun # <<>>

TabelaTemLinha(w) == amb[w].csv \in {"linhas", "quebrado"}

\* C19: descobrir_municipio asks the pass-fail API before the census API; the
\* name is the one of the first source that has one (pass-fail API, census
\* API, municipal table), no later API is asked once the pass-fail API gave
\* the name, and ('IBGE_<code>', '??') is returned only when none has one.
FontesEmOrdem ==
    \A w \in Workers :
        AposDescobrir(w) =>
            /\ \A i \in ChamadasA(w, "taxa-rendimento") :
                   \A j \in ChamadasA(w, "censo") : i < j
            /\ run[w].fonte = "taxa" <=>
                   \E i \in ChamadasA(w, "taxa-rendimento") : DaNome(w, i)
            /\ run[w].fonte = "taxa" =>
                   /\ ChamadasA(w, "censo") = {}
                   /\ DaNome(w, Len(obs[w].log))
                   /\ run[w].mun = obs[w].log[Len(obs[w].log)].val.nome
            /\ run[w].fonte = "censo" <=>
                   /\ \A i \in ChamadasA(w, "taxa-rendimento") : ~DaNome(w, i)
                   /\ \E j \in ChamadasA(w, "censo") :
                          DaNome(w, j) /\ run[w].mun = obs[w].log[j].val.nome
            /\ run[w].fonte = "csv" <=>
                   /\ \A i \in 1..Len(obs[w].log) : ~DaNome(w, i)
                   /\ TabelaTemLinha(w)
            /\ run[w].fonte = "csv" => run[w].mun = amb[w].nomeCsv
            /\ (run[w].mun = <<"IBGE_">> \o Strip(run[w].ibge)
                /\ run[w].uf = "??") <=>
                   /\ \A i \in 1..Len(obs[w].log) : ~DaNome(w, i)
                   /\ ~TabelaTemLinha(w)

\* the pass-fail API answered without a name and the census API gave it
NomeVeioDoCenso ==
    \E w \in Workers :
        /\ AposDescobrir(w) /\ run[w].fonte = "censo"
        /\ \E i \in ChamadasA(w, "taxa-rendimento") : Truthy(obs[w].log[i].val)
        /\ ChamadasA(w, "censo") # {}

\* ------------------------------------------------------------------------
\* C20
\* ------------------------------------------------------------------------
\* the request of w passed _validar_ibge and was answered with a bundle
AceitoERespondido(w) ==
    /\ GeracaoHttp(w)
    /\ resp[w].status = 200
    /\ resp[w].tipo # ""

\* C20 as stated: an accepted code of 2 digits is a state and one of 7 digits
\* a municipality, in the 'tipo' of the response, in the entity resolver and
\* for is_estado.
DoisDigitosSaoEstado ==
    \A w \in Workers :
        AceitoERespondido(w) =>
            /\ resp[w].tipo = "estado" <=> Len(run[w].ibge) = 2
            /\ resp[w].tipo = "municipio" <=> Len(run[w].ibge) = 7
            /\ run[w].fonte = "uf" <=> Len(run[w].ibge) = 2
            /\ is_estado(run[w].ibge) <=> Len(run[w].ibge) = 2

\* a 2-digit code that is no key of UF_CODES is answered as a municipality
\* whose name was asked from the API
DoisDigitosMunicipio ==
    \E w \in Workers :
        /\ AceitoERespondido(w)
        /\ Len(run[w].ibge) = 2
        /\ resp[w].tipo = "municipio"
        /\ run[w].fonte # "uf"

\* ------------------------------------------------------------------------
\* C21
\* ------------------------------------------------------------------------
NomesDe(arquivos) == {arquivos[i].fname : i \in 1..Len(arquivos)}

\* C21: the step of gerar_todos that writes and returns leaves the texts as
\* the renderers gave them; with an output directory it writes five files,
\* named by the five keys of 'arquivos' and holding their texts; without one
\* it writes no file.
EscreveOsCincoTextos ==
    [][\A w \in Workers :
          (pc[w] = "gravar" /\ pc'[w] = "responder") =>
              /\ run'[w].arquivos = run[w].arquivos
              /\ Cardinality(NomesDe(run'[w].arquivos)) = Len(Geradores)
              /\ IF OutputDir(w)
                 THEN /\ run'[w].gravados = run'[w].arquivos
                      /\ Cardinality(NomesDe(run'[w].gravados)) = Len(Geradores)
                 ELSE run'[w].gravados = <<>>]_vars

\* a run without output directory returned five texts and wrote nothing
DevolveuSemGravar ==
    \E w \in Workers :
        /\ req[w].rota = "direto" /\ run[w].devolveu
        /\ Len(run[w].arquivos) = Len(Geradores)
        /\ run[w].gravados = <<>>

\* ------------------------------------------------------------------------
\* C22
\* ------------------------------------------------------------------------
\* /gerar answered with the bundle
BundleRespondido(w) ==
    /\ req[w].rota \in {"gerar_query", "gerar_path"}
    /\ resp[w].status = 200 /\ resp[w].corpo = "bundle"

\* C22 as stated: the 'relatorios' map of a /gerar response has the five
\* report kinds as its keys, each with the text of the renderer of that
\* kind, and total_relatorios is 5.
CincoRelatoriosPorTipo ==
    \A w \in Workers :
        BundleRespondido(w) =>
            /\ DOMAIN resp[w].relatorios
               = {TIPOS_VALIDOS[k] : k \in DOMAIN TIPOS_VALIDOS}
            /\ \A t \in DOMAIN resp[w].relatorios : resp[w].relatorios[t].de = t
            /\ resp[w].total = Len(TIPOS_VALIDOS)

\* the entity's name holds a report kind: a key carries the text of another
\* renderer and fewer than five keys are left
ChaveComTextoAlheio ==
    \E w \in Workers :
        /\ BundleRespondido(w)
        /\ \E t \in DOMAIN resp[w].relatorios : resp[w].relatorios[t].de # t
        /\ resp[w].total < Len(TIPOS_VALIDOS)

\* ------------------------------------------------------------------------
\* C23
\* ------------------------------------------------------------------------
\* descobrir_municipio has just returned for a /municipio request of w that
\* found the cache as earlier /municipio requests left it (gerar_todos, which
\* always asks for learning data, has not run since the cache was last
\* empty), every fetch of theirs having failed, this code's among them
DepoisDeMunicipioFalhado(w) ==
    /\ AposDescobrir(w) /\ req[w].rota \in RotasMunicipio
    /\ obs[w].herdado # {}
    /\ \A k \in obs[w].herdado :
           /\ k[1][1] # "aprendizado"
           /\ k \in DOMAIN cache /\ cache[k] = None
    /\ \E i \in 1..Len(obs[w].log) : obs[w].log[i].key \in obs[w].herdado

\* C23 as stated: a /municipio request that follows a /municipio request
\* for the same code whose fetches all failed goes to the network again.
FalhaNaoELembrada ==
    \A w \in Workers :
        DepoisDeMunicipioFalhado(w) =>
            \E i \in 1..Len(obs[w].log) : obs[w].log[i].tent > 0

\* the later request was answered from the recorded failures alone, although
\* the network would have answered it
FalhaLembradaComRedeBoa ==
    \E w \in Workers :
        /\ DepoisDeMunicipioFalhado(w)
        /\ amb[w].falhas = 0
        /\ obs[w].log # <<>>
        /\ \A i \in 1..Len(obs[w].log) :
               obs[w].log[i].tent = 0 /\ obs[w].log[i].val = None
        /\ run[w].fonte # "taxa"

\* ------------------------------------------------------------------------
\* C24
\* ------------------------------------------------------------------------
\* C24: for a code that is a key of UF_CODES, descobrir_municipio returns the
\* name and the abbreviation of UF_CODES, calls fetch_json not once and
\* leaves the cache as it was.
EstadoSemBusca ==
    [][\A w \in Workers :
          (/\ pc[w] = "descobrir" /\ pc'[w] # "descobrir"
           /\ Strip(run[w].ibge) \in DOMAIN UF_CODES) =>
              /\ ~run'[w].exc
              /\ run'[w].mun = UF_CODES[Strip(run[w].ibge)][1]
              /\ run'[w].uf = UF_CODES[Strip(run[w].ibge)][2]
              /\ obs'[w].log = <<>>
              /\ cache' = cache]_vars

\* the name of a state was returned while the cache held entries of an
\* earlier request, none of them read or replaced
EstadoComCacheHerdado ==
    \E w \in Workers :
        /\ run[w].fonte = "uf" /\ req[w].rota \in RotasMunicipio
        /\ pc[w] = "responder"
        /\ run[w].mun = UF_CODES[Strip(run[w].ibge)][1]
        /\ obs[w].log = <<>>
        /\ obs[w].herdado # {} /\ DOMAIN cache = obs[w].herdado

\* ------------------------------------------------------------------------
\* C25
\* ------------------------------------------------------------------------
\* _get_ultimo_reg, by the 'ano' of the record it picks: the last record once
\* sorted by x.get("ano", 0); 0 when the list is empty
_get_ultimo_reg(regs) == MaxAno(regs, 0)

\* "if a > ano_ref: ano_ref = a" over the fetch_taxa calls of gerar_txt_taxa
RECURSIVE AnoRef(_, _, _)
AnoRef(res, i, ano_ref) ==
    IF i > Len(res) THEN ano_ref
    ELSE AnoRef(res, i + 1,
                IF /\ res[i].fn = "fetch_taxa" /\ Truthy(res[i].d)
                   /\ res[i].a > ano_ref
                THEN res[i].a ELSE ano_ref)

\* gerar_txt_taxa has just written a report from what fetch_taxa returned
TaxaRenderizada(w) ==
    /\ pc[w] = "coletar" /\ Len(run[w].arquivos) = Len(Geradores)
    /\ run[w].arquivos[Len(Geradores)].txt.marca = "relatorio"

\* C25 as stated: fetch_taxa returns the most recent 'ano' of the records
\* of the payload, or the requested year when none carries one, and so the
\* reference year gerar_txt_taxa prints is the year of the municipality
\* record whose rates the report shows.
AnoDeReferenciaEDoMunicipio ==
    \A w \in Workers : TaxaRenderizada(w) =>
        \A k \in 1..Len(obs[w].res) :
            LET e == obs[w].res[k]
            IN  (e.fn = "fetch_taxa" /\ Truthy(e.d)) =>
                  /\ e.a = AnoReal(e.d, AnoDaChave(obs[w].log[e.ate].key))
                  /\ e.d.mun # <<>> /\ _get_ultimo_reg(e.d.mun) # 0 =>
                       AnoRef(obs[w].res, 1, 0) = _get_ultimo_reg(e.d.mun)

\* the first half alone: the year returned is the largest 'ano' of the
\* records, or the year of the request that gave the payload
AnoDeTaxaEOMaisRecente ==
    \A w \in Workers : TaxaRenderizada(w) =>
        \A k \in 1..Len(obs[w].res) :
            LET e == obs[w].res[k]
            IN  (e.fn = "fetch_taxa" /\ Truthy(e.d)) =>
                  /\ obs[w].log[e.ate].val = e.d
                  /\ e.a = AnoReal(e.d, AnoDaChave(obs[w].log[e.ate].key))
                  /\ AnoRef(obs[w].res, 1, 0) >= e.a

\* the report is headed by a year later than that of the municipal record
\* it shows, because a national record is more recent
AnoDoBrasilNoCabecalho ==
    \E w \in Workers :
        /\ TaxaRenderizada(w)
        /\ \E k \in 1..Len(obs[w].res) :
               LET e == obs[w].res[k]
               IN  /\ e.fn = "fetch_taxa" /\ Truthy(e.d)
                   /\ _get_ultimo_reg(e.d.mun) # 0
                   /\ AnoRef(obs[w].res, 1, 0) > _get_ultimo_reg(e.d.mun)
                   /\ AnoRef(obs[w].res, 1, 0) = _get_ultimo_reg(e.d.br)

\* ------------------------------------------------------------------------
\* C26: fetch_taxa_historico, called by code that imports the module
\* ------------------------------------------------------------------------
\* "for a in _anos_candidatos(8)"
JanelaHistorico == 8

\* "if len(resultados) >= 3: break"
LimiteHistorico == 3

\* what fetch_taxa_historico hands back: the dict year -> payload, or exc
Historico(ctx, resultados, exc) ==
    [ctx |-> ctx, resultados |-> resultados, exc |-> exc]

RECURSIVE HistLoop(_, _, _, _, _, _, _)
RECURSIVE HistSemBreak(_, _, _, _, _, _, _)
RECURSIVE HistFim(_, _, _, _, _, _, _)

\* HistFim that never leaves the loop early
HistSemBreak(ctx, W, ibge, ciclo, anos, i, resultados) ==
    HistLoop(ctx, W, ibge, ciclo, anos, i + 1, resultados)

\* "if len(resultados) >= 3: break"
HistFim(ctx, W, ibge, ciclo, anos, i, resultados) ==
    IF Cardinality(DOMAIN resultados) >= LimiteHistorico
    THEN Historico(ctx, resultados, FALSE)
    ELSE HistLoop(ctx, W, ibge, ciclo, anos, i + 1, resultados)

\* the body of the loop once fetch_json returned r; the payload model keeps
\* the scopes under the names _normalizar_taxa_keys gives them
HistPasso(r, W, ibge, ciclo, anos, i, resultados) ==
    IF r.val.forma = "torto" THEN Historico(r.ctx, <<>>, TRUE)
    ELSE HistFim(r.ctx, W, ibge, ciclo, anos, i,
                 IF Truthy(r.val) /\ TaxaTemDados(r.val)
                 THEN (anos[i] :> r.val) @@ resultados ELSE resultados)

HistLoop(ctx, W, ibge, ciclo, anos, i, resultados) ==
    IF i > Len(anos) THEN Historico(ctx, resultados, FALSE)
    ELSE HistPasso(fetch_json(ctx, W, <<"taxa-rendimento", ibge>>,
                              TaxaParams(anos[i], ciclo, 0), Tentativas),
                   W, ibge, ciclo, anos, i, resultados)

fetch_taxa_historico(ctx, W, ibge, ciclo) ==
    HistLoop(ctx, W, ibge, ciclo, _anos_candidatos(JanelaHistorico), 1, <<>>)

\* the years for which the API holds pass-fail data: none, the whole window,
\* more than three at its start, years with gaps, the far end of the window
\* and beyond it, fewer than three
AnosHist ==
    { {},
      {ANO_ATUAL - k : k \in 0..(JanelaHistorico - 1)},
      {ANO_ATUAL, ANO_ATUAL - 1, ANO_ATUAL - 2, ANO_ATUAL - 3},
      {ANO_ATUAL, ANO_ATUAL - 2, ANO_ATUAL - 5, ANO_ATUAL - 7},
      {ANO_ATUAL - 6, ANO_ATUAL - 7, ANO_ATUAL - 8, ANO_ATUAL - 9},
      {ANO_ATUAL - 1, ANO_ATUAL - 6} }

MundosHist ==
    { [MundoBase EXCEPT !.anos = A, !.fora = F] :
          A \in AnosHist, F \in {{}, {ANO_ATUAL - 1}} }
    \cup
    { \* a response that holds none of the three scopes
      [MundoBase EXCEPT !.mun = <<>>, !.br = <<>>,
                        !.anos = {ANO_ATUAL, ANO_ATUAL - 1, ANO_ATUAL - 2}],
      \* only national records
      [MundoBase EXCEPT !.mun = <<>>, !.br = <<ANO_ATUAL - 2>>,
                        !.anos = {ANO_ATUAL - 1, ANO_ATUAL - 2}],
      \* the endpoint answers with the wrong JSON type
      [MundoBase EXCEPT !.forma = "torto", !.alvo = {"taxa-rendimento"}],
      \* every attempt fails
      [MundoBase EXCEPT !.falhas = Tentativas] }

IbgeHist == <<"2","3","0","4","4","0","0">>

\* a script or an interpreter session calls fetch_taxa_historico(ibge, ciclo)
chamar_historico(w) ==
    /\ Livre(w) /\ proc \in {"novo", "interprete"}
    /\ proc' = "interprete"
    /\ pedidos' = pedidos + 1
    /\ pc' = [pc EXCEPT ![w] = "historico"]
    /\ \E c \in 1..Len(CICLOS), W \in MundosHist :
         /\ req' = [req EXCEPT ![w] = [rota |-> "historico", ibge |-> IbgeHist,
                                      tipo |-> ""]]
         /\ amb' = [amb EXCEPT ![w] = W]
         /\ run' = [run EXCEPT ![w] = [Run0 EXCEPT !.ibge = IbgeHist]]
         /\ calc' = [Calc0 EXCEPT !.fn = "fetch_taxa_historico",
                                  !.arg = CICLOS[c]]
    /\ obs' = [obs EXCEPT ![w] = [Obs0 EXCEPT !.herdado = DOMAIN cache]]
    /\ UNCHANGED <<cache, resp>>

Devolvido(w, r) ==
    /\ cache' = r.ctx.cache
    /\ obs' = [obs EXCEPT ![w] = Observa(@, r.ctx)]
    /\ calc' = [calc EXCEPT !.out = [resultados |-> r.resultados,
                                     exc |-> r.exc]]
    /\ pc' = [pc EXCEPT ![w] = "idle"]
    /\ UNCHANGED <<proc, pedidos, req, amb, run, resp>>

\* the call runs and returns
executar_historico(w) ==
    /\ pc[w] = "historico"
    /\ Devolvido(w, fetch_taxa_historico(Ctx0(cache), amb[w], run[w].ibge,
                                         calc.arg))

NextHist == chamar_historico(1) \/ executar_historico(1)

SpecHist == Init /\ [][NextHist]_vars

\* fetch_taxa_historico has returned to its caller
HistoricoDevolvido(w) ==
    /\ req[w].rota = "historico" /\ pc[w] = "idle"
    /\ calc.fn = "fetch_taxa_historico"

\* C26: fetch_taxa_historico asks for at most 8 years, the current year
\* first and then one year back at a time; it returns at most 3 entries,
\* each the payload of a requested year that passed the non-empty test;
\* every requested year that passed the test is among them, so they are the
\* most recent ones; and the request that gave the third entry is the last.
HistoricoTresMaisRecentes ==
    \A w \in Workers : HistoricoDevolvido(w) =>
        LET L == obs[w].log
            R == calc.out.resultados
        IN  /\ Len(L) <= JanelaHistorico
            /\ \A j \in 1..Len(L) : AnoDaChave(L[j].key) = ANO_ATUAL - (j - 1)
            /\ ~calc.out.exc =>
                 /\ Cardinality(DOMAIN R) <= LimiteHistorico
                 /\ \A a \in DOMAIN R :
                        \E j \in 1..Len(L) :
                            /\ AnoDaChave(L[j].key) = a /\ R[a] = L[j].val
                            /\ NaoVazio("fetch_taxa", L[j].val)
                 /\ \A j \in 1..Len(L) :
                        NaoVazio("fetch_taxa", L[j].val)
                            => AnoDaChave(L[j].key) \in DOMAIN R
                 /\ IF Cardinality(DOMAIN R) = LimiteHistorico
                    THEN NaoVazio("fetch_taxa", L[Len(L)].val)
                    ELSE Len(L) = JanelaHistorico

\* three entries found with an empty year skipped on the way, and the years
\* after the third never requested
TerceiroAnoEncerraABusca ==
    \E w \in Workers :
        /\ HistoricoDevolvido(w) /\ ~calc.out.exc
        /\ Cardinality(DOMAIN calc.out.resultados) = LimiteHistorico
        /\ Len(obs[w].log) > LimiteHistorico
        /\ Len(obs[w].log) < JanelaHistorico
        /\ \E a \in amb[w].anos :
               /\ a > ANO_ATUAL - JanelaHistorico
               /\ a \notin DOMAIN calc.out.resultados

\* ------------------------------------------------------------------------
\* Helpers of the reports, each applied to inputs of its own
\* ------------------------------------------------------------------------
\* A Python value as far as _normalizar_taxa_keys looks at it: its type and,
\* for a list, its records.  A dict is [tipo |-> "dict", itens |-> key :> value].
PyNone == [tipo |-> "None", regs |-> <<>>]

ListaVazia == [tipo |-> "list", regs |-> <<>>]

Lista(regs) == [tipo |-> "list", regs |-> regs]

Dict(itens) == [tipo |-> "dict", itens |-> itens]

\* truthiness of None and of a list
Verdadeiro(v) == v.tipo = "list" /\ v.regs # <<>>

\* d.get(k)
Get(d, k) == IF k \in DOMAIN d.itens THEN d.itens[k] ELSE PyNone

\* "a or b"
Ou(a, b) == IF Verdadeiro(a) THEN a ELSE b

\* _normalizar_taxa_keys that looks at 'municipio' and 'estado' first
NormalizarNomeNovoPrimeiro(d) ==
    IF d.tipo # "dict" THEN d
    ELSE Dict(("municipio" :> Ou(Get(d, "municipio"),
                                 Ou(Get(d, "entidade"), ListaVazia)))
           @@ ("estado" :> Ou(Get(d, "estado"),
                              Ou(Get(d, "parent"), ListaVazia)))
           @@ ("brasil" :> Ou(Get(d, "brasil"), ListaVazia)))

_normalizar_taxa_keys(d) ==
    IF d.tipo # "dict" THEN d
    ELSE Dict(("municipio" :> Ou(Get(d, "entidade"),
                                 Ou(Get(d, "municipio"), ListaVazia)))
           @@ ("estado" :> Ou(Get(d, "parent"),
                              Ou(Get(d, "estado"), ListaVazia)))
           @@ ("brasil" :> Ou(Get(d, "brasil"), ListaVazia)))

\* --- the qualitative analysis of gerar_txt_taxa ---
\* Python truthiness of an optional number: None and 0 are falsy, NaN is not
Verdade(x) == x.falta = "nan" \/ (x.falta = "" /\ x.v # 0)

\* x < y, x > y, x >= y on floats: false whenever NaN takes part
Menor(x, y) == x.falta = "" /\ y.falta = "" /\ x.v < y.v

Maior(x, y) == x.falta = "" /\ y.falta = "" /\ x.v > y.v

MaiorOuIgual(x, y) == x.falta = "" /\ y.falta = "" /\ x.v >= y.v

\* "if not ed or ed.get('aprovados') is None": the segment shows no rate
EtapaSemDados(ed) == ~ed.dados \/ ed.aprovados.falta = "None"

\* the three labels the diagnosis prints for a segment
DiagnosticoEtapa(ed) ==
    IF EtapaSemDados(ed) THEN <<>>
    ELSE <<_classificar_taxa(ed.aprovados, "aprovacao"),
           _classificar_taxa(ed.reprovados, "reprovacao"),
           _classificar_taxa(ed.abandonos, "abandono")>>

\* rv, av: "x * 100 if x and abs(x) <= 1.01 else (x or 0)"
AlertaVal(x) ==
    IF x.falta = "None" THEN Num(0)
    ELSE IF x.falta = "nan" THEN NaN
    ELSE Num(IF x.v # 0 /\ Abs(x.v) <= 1010 THEN x.v * 100 ELSE x.v)

\* "if rv > 5: alertas.append(...)" and "if av > 3: alertas.append(...)"
AlertasEtapa(ed) ==
    IF EtapaSemDados(ed) THEN <<>>
    ELSE (IF Maior(AlertaVal(ed.reprovados), Num(5000))
          THEN <<"Alta reprovacao">> ELSE <<>>)
         \o (IF Maior(AlertaVal(ed.abandonos), Num(3000))
             THEN <<"Alto abandono">> ELSE <<>>)

RECURSIVE AlertasTaxa(_, _)
AlertasTaxa(etapas, c) ==
    IF c > Len(etapas) THEN <<>>
    ELSE AlertasEtapa(etapas[c]) \o AlertasTaxa(etapas, c + 1)

\* the conclusion, by its word in capitals
ConclusaoTaxa(alertas) ==
    IF Len(alertas) = 0 THEN "EXCELENTES"
    ELSE IF Len(alertas) <= 2 THEN "BOAS" ELSE "DESAFIOS"

AnaliseTaxa(etapas) ==
    [diagnostico |-> [c \in 1..Len(etapas) |-> DiagnosticoEtapa(etapas[c])],
     alertas |-> AlertasTaxa(etapas, 1),
     conclusao |-> ConclusaoTaxa(AlertasTaxa(etapas, 1))]

\* --- the qualitative analysis of a cycle of gerar_txt_aprendizado ---
\* "_adeq(ultimo, disc) if ultimo else None"
AdeqDe(u, disc) == IF u.tem THEN _adeq(u.rec, disc) ELSE Nenhum

\* "if adeq and adeq < 0.5"
Oportunidade(adeq) == Verdade(adeq) /\ Menor(adeq, Num(500))

\* "if adeq and vb_adeq and adeq < vb_adeq"
AbaixoBrasil(adeq, vb_adeq) ==
    Verdade(adeq) /\ Verdade(vb_adeq) /\ Menor(adeq, vb_adeq)

\* the list of cats a subject is appended to; "" when it is skipped
Categoria(vm_adeq, vb_adeq, vs_adeq) ==
    IF vm_adeq.falta = "None" THEN ""
    ELSE IF Verdade(vb_adeq) /\ Menor(vm_adeq, vb_adeq) THEN "abaixo_br"
    ELSE IF Verdade(vs_adeq) /\ Menor(vm_adeq, vs_adeq) THEN "abaixo_sem"
    ELSE "acima"

\* what the analysis says of subject disc
AnaliseDisciplina(mun, br, sem, disc) ==
    [classif |-> _classificar_desempenho(_adeq(mun, disc)),
     oportunidade |-> Oportunidade(_adeq(mun, disc)),
     abaixo_brasil |-> AbaixoBrasil(_adeq(mun, disc), AdeqDe(br, disc)),
     cat |-> Categoria(_adeq(mun, disc), AdeqDe(br, disc), AdeqDe(sem, disc))]

\* "if alertas_criticos > 0 or abaixo_brasil > 0 ... elif len(abaixo_sem) > 0"
Situacao(disc) ==
    IF \E i \in DOMAIN disc : disc[i].oportunidade \/ disc[i].abaixo_brasil
    THEN "CRITICA"
    ELSE IF \E i \in DOMAIN disc : disc[i].cat = "abaixo_sem" THEN "ATENCAO"
    ELSE "POSITIVA"

Concluida(disc) == [disc |-> disc, situacao |-> Situacao(disc)]

AnaliseAprendizado(mun, br, sem) ==
    Concluida([i \in DOMAIN DISCIPLINAS |->
                  AnaliseDisciplina(mun, br, sem, DISCIPLINAS[i])])

\* --- the comparative panorama of gerar_txt_infra ---
Elementos(s) == {s[i] : i \in 1..Len(s)}

\* 'i["br"] is not None and i["mun"] < i["br"]'
InfraAbaixoBr(it) == it.br.falta # "None" /\ Menor(it.mun, it.br)

\* 'i["br"] is not None and i["mun"] >= i["br"] and i["est"] is not None
\*  and i["mun"] < i["est"]'
InfraAbaixoEst(it) ==
    /\ it.br.falta # "None" /\ MaiorOuIgual(it.mun, it.br)
    /\ it.est.falta # "None" /\ Menor(it.mun, it.est)

\* "[i for i in items_rel if i not in abaixo_br and i not in abaixo_est]"
InfraAcima(items_rel, abaixo_br, abaixo_est) ==
    SelectSeq(items_rel, LAMBDA it : it \notin Elementos(abaixo_br)
                                     /\ it \notin Elementos(abaixo_est))

Panorama(items_rel) ==
    [abaixo_br |-> SelectSeq(items_rel, InfraAbaixoBr),
     abaixo_est |-> SelectSeq(items_rel, InfraAbaixoEst),
     acima |-> InfraAcima(items_rel, SelectSeq(items_rel, InfraAbaixoBr),
                          SelectSeq(items_rel, InfraAbaixoEst)),
     total |-> Len(items_rel)]

\* --- inputs ---
\* what a scope may hold: null, no record, one record, another record
Escopos == {PyNone, ListaVazia, Lista(<<"r1">>), Lista(<<"r2">>)}

ChavesTaxa == {"entidade", "municipio", "parent", "estado", "brasil"}

\* dicts with any of the five scope keys, with or without a key of their own
DictsTaxa ==
    UNION { UNION { { Dict(f), Dict(("filtros" :> Lista(<<"r1">>)) @@ f) } :
                      f \in [K -> Escopos] } : K \in SUBSET ChavesTaxa }

\* what fetch_json may hand over that is no dict
NaoDicts == {PyNone, ListaVazia, Lista(<<"r1">>)}

\* a segment of the pass-fail report: fetch_taxa gave no payload, or the
\* three rates of the latest municipal record, as fractions or percentages
EtapasTaxa ==
    { [dados |-> FALSE, aprovados |-> Nenhum, reprovados |-> Nenhum,
       abandonos |-> Nenhum] }
    \cup [dados : {TRUE}, aprovados : {Nenhum, Num(850), Num(99000)},
          reprovados : {Nenhum, Num(20), Num(8000)},
          abandonos : {Nenhum, Num(10), Num(4000)}]

\* a learning record by its adequate, proficient and advanced shares
NiveisDe(a, p, v) ==
    [n \in Niveis |-> CASE n = "adequado" -> a
                        [] n = "proficiente" -> p
                        [] OTHER -> v]

RegistroDe(lp, mt) ==
    [par \in {<<d, n>> : d \in {DISCIPLINAS[i] : i \in DOMAIN DISCIPLINAS},
                         n \in Niveis}
        |-> IF par[1] = DISCIPLINAS[1] THEN lp[par[2]] ELSE mt[par[2]]]

PerfisMun ==
    {NiveisDe(a, p, v) : a \in {Nenhum, Num(0), Num(300), Num(600)},
                         p \in {Nenhum, Num(200)}, v \in {Nenhum, Num(100)}}

PerfisRef == {NiveisDe(a, Nenhum, Nenhum) : a \in {Nenhum, Num(400), Num(700)}}

Ausente == [tem |-> FALSE, rec |-> RegistroDe(NiveisDe(Nenhum, Nenhum, Nenhum),
                                              NiveisDe(Nenhum, Nenhum, Nenhum))]

Presente(rec) == [tem |-> TRUE, rec |-> rec]

\* ultimo_mun, ultimo_br and ultimo_sem of a cycle
UltimosAprendizado ==
    [mun : {RegistroDe(lp, mt) : lp \in PerfisMun, mt \in PerfisMun},
     br : {Ausente} \cup {Presente(RegistroDe(lp, mt)) :
                             lp \in PerfisRef, mt \in PerfisRef},
     sem : {Ausente, Presente(RegistroDe(NiveisDe(Num(500), Nenhum, Nenhum),
                                         NiveisDe(Num(500), Nenhum, Nenhum)))}]

\* an indicator of items_rel: the municipal value is never None
ItensInfra ==
    [label : {"Biblioteca", "Internet"}, mun : {Num(0), Num(400), Num(800)},
     est : {Nenhum, Num(600)}, br : {Nenhum, Num(500)}]

ListasInfra ==
    {<<a>> : a \in ItensInfra} \cup {<<a, b>> : a \in ItensInfra, b \in ItensInfra}

InitRel ==
    /\ InitPrograma
    /\ \/ \E d \in DictsTaxa \cup NaoDicts :
              calc = [Calc0 EXCEPT !.de = "payload", !.rec = d]
       \/ \E e1 \in EtapasTaxa, e2 \in EtapasTaxa, e3 \in EtapasTaxa :
              /\ e1.dados \/ e2.dados \/ e3.dados
              /\ calc = [Calc0 EXCEPT !.de = "etapas",
                                      !.linhas = <<e1, e2, e3>>]
       \/ \E u \in UltimosAprendizado :
              calc = [Calc0 EXCEPT !.de = "ultimos", !.rec = u]
       \/ \E l \in ListasInfra :
              calc = [Calc0 EXCEPT !.de = "itens", !.linhas = l]

\* norm = _normalizar_taxa_keys(d)
NormalizaTaxa ==
    /\ Pronto("payload")
    /\ Chamada("_normalizar_taxa_keys", "1", Nenhum,
               _normalizar_taxa_keys(calc.rec))

\* the result is normalised again: _normalizar_taxa_keys(norm)
NormalizaDeNovo ==
    /\ calc.fn = "_normalizar_taxa_keys" /\ calc.arg = "1"
    /\ calc' = [calc EXCEPT !.arg = "2",
                  !.out = [uma |-> calc.out,
                           duas |-> _normalizar_taxa_keys(calc.out)]]
    /\ UNCHANGED Programa

\* gerar_txt_taxa from the diagnosis by segment to the conclusion
AnalisaTaxa ==
    /\ Pronto("etapas")
    /\ Chamada("gerar_txt_taxa", "", Nenhum, AnaliseTaxa(calc.linhas))

\* gerar_txt_aprendizado from the diagnosis by subject to the conclusion
AnalisaAprendizado ==
    /\ Pronto("ultimos")
    /\ Chamada("gerar_txt_aprendizado", "", Nenhum,
               AnaliseAprendizado(calc.rec.mun, calc.rec.br, calc.rec.sem))

\* gerar_txt_infra from the panorama to its summary
AnalisaInfra ==
    /\ Pronto("itens")
    /\ Chamada("gerar_txt_infra", "", Nenhum, Panorama(calc.linhas))

NextRel ==
    \/ NormalizaTaxa
    \/ NormalizaDeNovo
    \/ AnalisaTaxa
    \/ AnalisaAprendizado
    \/ AnalisaInfra

SpecRel == InitRel /\ [][NextRel]_vars

\* ------------------------------------------------------------------------
\* C27
\* ------------------------------------------------------------------------
\* key k of d holds records
TemRegistros(d, k) ==
    k \in DOMAIN d.itens /\ d.itens[k].tipo = "list" /\ d.itens[k].regs # <<>>

\* the records of the first of the keys that holds any, else the empty list
Preferido(d, chaves) ==
    IF \E i \in 1..Len(chaves) : TemRegistros(d, chaves[i])
    THEN d.itens[chaves[CHOOSE i \in 1..Len(chaves) :
                          /\ TemRegistros(d, chaves[i])
                          /\ \A j \in 1..(i - 1) : ~TemRegistros(d, chaves[j])]]
    ELSE ListaVazia

\* the result of the first application
Norm == IF calc.arg = "2" THEN calc.out.uma ELSE calc.out

\* C27: for a dict, _normalizar_taxa_keys returns a dict with exactly the
\* keys 'municipio', 'estado' and 'brasil'; 'municipio' holds the records of
\* 'entidade' when there are any, else those of 'municipio'; 'estado' those
\* of 'parent', else those of 'estado'; a scope without records is the empty
\* list; a second application returns what the first returned; a non-dict
\* comes back as it is.
NormalizaParaTresEscopos ==
    calc.fn = "_normalizar_taxa_keys" =>
        /\ calc.arg = "2" => calc.out.duas = calc.out.uma
        /\ IF calc.rec.tipo # "dict" THEN Norm = calc.rec
           ELSE /\ Norm.tipo = "dict"
                /\ DOMAIN Norm.itens = {"municipio", "estado", "brasil"}
                /\ Norm.itens["municipio"]
                       = Preferido(calc.rec, <<"entidade", "municipio">>)
                /\ Norm.itens["estado"]
                       = Preferido(calc.rec, <<"parent", "estado">>)
                /\ Norm.itens["brasil"] = Preferido(calc.rec, <<"brasil">>)

\* both names of the municipal scope held records, the national scope was
\* null, a key of its own was dropped, and the result was normalised twice
EntidadeVenceENuloViraLista ==
    /\ calc.fn = "_normalizar_taxa_keys" /\ calc.arg = "2"
    /\ calc.rec.tipo = "dict"
    /\ DOMAIN calc.rec.itens = {"entidade", "municipio", "brasil", "filtros"}
    /\ calc.rec.itens["entidade"] = Lista(<<"r1">>)
    /\ calc.rec.itens["municipio"] = Lista(<<"r2">>)
    /\ calc.rec.itens["brasil"] = PyNone
    /\ calc.out.duas.itens["municipio"] = Lista(<<"r1">>)
    /\ calc.out.duas.itens["brasil"] = ListaVazia

\* ------------------------------------------------------------------------
\* C28
\* ------------------------------------------------------------------------
\* the labels the diagnosis of the pass-fail report displays
RotulosExibidos(diagnostico) ==
    UNION { Elementos(diagnostico[c]) : c \in DOMAIN diagnostico }

\* C28 as stated: the pass-fail report concludes 'EXCELENTES taxas de
\* rendimento' only when no displayed rate of any segment is classified
\* 'Critico' and at least one segment has data.
ExcelentesSoSemCritico ==
    (calc.fn = "gerar_txt_taxa" /\ calc.out.conclusao = "EXCELENTES") =>
        /\ "Critico" \notin RotulosExibidos(calc.out.diagnostico)
        /\ \E c \in DOMAIN calc.out.diagnostico : calc.out.diagnostico[c] # <<>>

\* what does hold: 'EXCELENTES' means no displayed failure or dropout rate
\* is classified 'Critico'
ExcelentesSemReprovacaoCritica ==
    (calc.fn = "gerar_txt_taxa" /\ calc.out.conclusao = "EXCELENTES") =>
        \A c \in DOMAIN calc.out.diagnostico :
            calc.out.diagnostico[c] # <<>> =>
                /\ calc.out.diagnostico[c][2] # "Critico"
                /\ calc.out.diagnostico[c][3] # "Critico"

\* 'EXCELENTES' beside an approval rate displayed as 'Critico'
ExcelentesComAprovacaoCritica ==
    /\ calc.fn = "gerar_txt_taxa" /\ calc.out.conclusao = "EXCELENTES"
    /\ \E c \in DOMAIN calc.out.diagnostico :
           /\ calc.out.diagnostico[c] # <<>>
           /\ calc.out.diagnostico[c][1] = "Critico"

\* 'EXCELENTES' in a report none of whose segments has data
ExcelentesSemDados ==
    /\ calc.fn = "gerar_txt_taxa" /\ calc.out.conclusao = "EXCELENTES"
    /\ \A c \in DOMAIN calc.out.diagnostico : calc.out.diagnostico[c] = <<>>

\* ------------------------------------------------------------------------
\* C29
\* ------------------------------------------------------------------------
\* C29 as stated: in the learning report of a cycle, a subject whose
\* diagnosis is 'Desempenho critico' is listed among the opportunities and
\* the conclusion of the cycle reads 'SITUACAO: CRITICA'.
CriticoEOportunidade ==
    calc.fn = "gerar_txt_aprendizado" =>
        \A i \in DOMAIN calc.out.disc :
            calc.out.disc[i].classif = "Desempenho critico" =>
                /\ calc.out.disc[i].oportunidade
                /\ calc.out.situacao = "CRITICA"

\* what does hold: a subject listed among the opportunities is diagnosed
\* 'Desempenho critico' and makes the conclusion 'CRITICA'
OportunidadeECritica ==
    calc.fn = "gerar_txt_aprendizado" =>
        \A i \in DOMAIN calc.out.disc :
            calc.out.disc[i].oportunidade =>
                /\ calc.out.disc[i].classif = "Desempenho critico"
                /\ calc.out.situacao = "CRITICA"

\* a subject with an adequate share of 0 is diagnosed 'Desempenho critico',
\* is no opportunity, and the cycle is concluded 'POSITIVA'
ZeroCriticoEPositiva ==
    /\ calc.fn = "gerar_txt_aprendizado"
    /\ calc.out.situacao = "POSITIVA"
    /\ \E i \in DOMAIN calc.out.disc :
           /\ _adeq(calc.rec.mun, DISCIPLINAS[i]) = Num(0)
           /\ calc.out.disc[i].classif = "Desempenho critico"
           /\ ~calc.out.disc[i].oportunidade

\* ------------------------------------------------------------------------
\* C30
\* ------------------------------------------------------------------------
\* how many of the three groups hold indicator it
GruposDe(it, p) ==
    Cardinality({g \in {"abaixo_br", "abaixo_est", "acima"} :
                    it \in Elementos(p[g])})

\* C30 as stated: every analysed indicator is in exactly one of the three
\* groups, the three counts add up to the total, and an indicator listed as
\* above the state and national averages is below neither the state value
\* nor the national value, whichever of them is present.
TresGruposEAcimaDeAmbos ==
    calc.fn = "gerar_txt_infra" =>
        /\ \A k \in 1..Len(calc.linhas) : GruposDe(calc.linhas[k], calc.out) = 1
        /\ Len(calc.out.abaixo_br) + Len(calc.out.abaixo_est)
               + Len(calc.out.acima) = calc.out.total
        /\ \A k \in 1..Len(calc.out.acima) :
               LET it == calc.out.acima[k]
               IN  /\ it.est.falta = "" => ~(it.mun.v < it.est.v)
                   /\ it.br.falta = "" => ~(it.mun.v < it.br.v)

\* what does hold: the three groups partition the indicators
TresGruposSomamOTotal ==
    calc.fn = "gerar_txt_infra" =>
        /\ \A k \in 1..Len(calc.linhas) : GruposDe(calc.linhas[k], calc.out) = 1
        /\ Len(calc.out.abaixo_br) + Len(calc.out.abaixo_est)
               + Len(calc.out.acima) = calc.out.total
        /\ calc.out.total = Len(calc.linhas)

\* an indicator without national value, below the state value, is listed as
\* above both averages
AcimaMasAbaixoDoEstado ==
    /\ calc.fn = "gerar_txt_infra"
    /\ \E k \in 1..Len(calc.out.acima) :
           LET it == calc.out.acima[k]
           IN  /\ it.br.falta = "None"
               /\ it.est.falta = "" /\ it.mun.v < it.est.v

====
